---- MODULE Spec2Model ----
(***************************************************************************)
(* Error tracking, alerting and fault-tolerance core of the customer       *)
(* snapshot generator: the fingerprint store (ErrorAggregator inside       *)
(* ErrorTracker), the alert de-duplication cache (AlertAggregator), the    *)
(* CircuitBreaker state machine and the with_retry loop.                   *)
(*                                                                         *)
(* Time is the wall clock (datetime.now() / time.time()) in whole seconds. *)
(* ISO timestamps are compared as the integers they denote: isoformat()    *)
(* of a naive datetime is fixed-width up to the optional microsecond part, *)
(* so string order and fromisoformat() order both agree with clock order.  *)
(***************************************************************************)
EXTENDS Integers, Sequences, FiniteSets, TLC

VARIABLES
    now,              \* wall clock
    \* ---- ErrorTracker / ErrorAggregator
    max_errors,       \* ErrorAggregator.max_errors
    records,          \* heap of canonical ErrorRecord objects, by id
    next_id,          \* source of fresh record ids (uuid4)
    error_cache,      \* ErrorAggregator.error_cache: ids in dict insertion order
    error_counts,     \* ErrorAggregator.error_counts: fingerprint -> count
    error_history,    \* ErrorTracker.error_history: deque of record references
    alert_callback,   \* ErrorTracker.alert_callback is set
    callback_raises,  \* the installed callback raises when it is invoked
    emitted,          \* alerts handed to the callback by the latest track_error
    track_raised,     \* the latest track_error call ended with an exception
    track_times,      \* clock reading of every track_error call, in order
    last_add,         \* observation of the latest add_error call
    \* ---- CircuitBreaker
    failure_threshold,
    recovery_timeout,
    expected_exception, \* class given as expected_exception
    cb_state,
    failure_count,
    last_failure_time,
    cb_pc,            \* position of the caller inside wrapper
    cb_trial,         \* the call in flight entered through the OPEN branch
    cb_result,        \* how the latest finished call ended
    cb_raised,        \* class of the exception its caller saw, or "none"
    cb_calls,         \* calls of wrapper started so far
    invocations,      \* executions of the wrapped function so far
    cb_log,           \* outcomes of the executions of the wrapped function
    \* ---- with_retry
    rt_max_attempts,
    rt_delay,
    rt_backoff,
    rt_on_retry,      \* "none", "ok" or "raises"
    rt_pc,
    rt_attempt,       \* loop variable attempt
    rt_current_delay,
    rt_outcomes,      \* outcome of each execution of func, in order
    rt_sleeps,        \* arguments of time.sleep, in order
    rt_callbacks,     \* first arguments of on_retry, in order
    rt_result,
    \* ---- AlertAggregator
    alert_cache,      \* cache_key -> entry
    alert_log,        \* should_send_alert calls and what they returned
    \* ---- concurrent callers
    th,               \* the threads inside ErrorTracker.track_error
    cth,              \* the threads inside CircuitBreaker's wrapper
    \* ---- with_fallback / ErrorBoundary / safe_execute
    op_result,        \* the latest protected operation and what its caller saw
    se,               \* the safe_execute call in progress
    \* ---- queries
    resolve_result,   \* the latest resolve_error call and what it returned
    top_result,       \* what the latest get_top_errors call returned
    export_result,    \* the latest export_errors call and what it produced
    fpc,              \* two generate_fingerprint calls and their results
    \* ---- statistics
    error_stats,      \* ErrorTracker.error_stats, the one shared object
    stats_epoch,      \* for every field of error_stats, the tick that wrote it
    processing_enabled,
    loops,            \* the threads started on _update_stats_loop
    tick_count,       \* statistics ticks begun so far
    stats_read,       \* what the latest reader of get_error_stats saw
    stopper           \* the stop_background_processing call in progress

storeVars == <<max_errors, records, next_id, error_cache, error_counts,
               error_history, alert_callback, callback_raises, emitted,
               track_raised, track_times, last_add>>
cbVars == <<failure_threshold, recovery_timeout, expected_exception, cb_state,
            failure_count, last_failure_time, cb_pc, cb_trial, cb_result,
            cb_raised, cb_calls, invocations, cb_log>>
rtVars == <<rt_max_attempts, rt_delay, rt_backoff, rt_on_retry, rt_pc,
            rt_attempt, rt_current_delay, rt_outcomes, rt_sleeps,
            rt_callbacks, rt_result>>
alertVars == <<alert_cache, alert_log>>
concVars == <<th, cth>>
guardVars == <<op_result, se>>
queryVars == <<resolve_result, top_result, export_result>>
fpVars == <<fpc>>
statsVars == <<error_stats, stats_epoch, processing_enabled, loops, tick_count,
               stats_read, stopper>>
auxVars == <<queryVars, fpVars, statsVars>>
vars == <<now, storeVars, cbVars, rtVars, alertVars, concVars, guardVars,
          auxVars>>

(***************************************************************************)
(* Bounds of the model.                                                    *)
(***************************************************************************)
MaxFp == 10          \* distinct fingerprints
MaxRetracks == 1     \* track_error calls on a fingerprint used before
MaxSame == 5         \* track_error calls while one fingerprint is the only one
MaxCalls == 5        \* calls through the circuit breaker
MaxCbTime == 4       \* clock ticks in the breaker specification
MaxThreshold == 3    \* largest failure_threshold
MaxTimeout == 2      \* largest recovery_timeout
MaxAttempts == 4     \* largest max_attempts of with_retry
MaxAlertCalls == 3   \* should_send_alert calls
MaxAlertTime == 600  \* clock limit in the alert specification
MaxCacheTime == 1300 \* clock limit in the specification of the full alert cache
MaxBurst == 22       \* track_error calls in the spike specification
MaxSpikeFps == 2     \* distinct fingerprints in the spike specification
MaxGuardTracks == 3  \* track_error calls in the specification of the wrappers
MaxHandlerTracks == 2 \* track_error calls before the call of a composed handler
MaxRetryCount == 1   \* largest retry_count of safe_execute
MaxQueryTracks == 3  \* track_error calls in the specification of the queries
MaxResolves == 2     \* resolve_error calls
MaxTopCalls == 1     \* get_top_errors calls
MaxExports == 1      \* export_errors calls
MaxExportTracks == 4 \* track_error calls in the specification of the export
MaxResolutionTracks == 2  \* track_error calls next to resolve_error and ticks
MaxFrameTracks == 2  \* track_error calls made on the filled store
MaxFpCalls == 2      \* generate_fingerprint calls that are compared
MaxStarts == 2       \* start_background_processing calls
MaxStatsStarts == 1  \* the same, next to track_error calls and a reader
MaxStops == 1        \* stop_background_processing calls
MaxTicks == 2        \* statistics ticks begun
MaxStatsTracks == 2  \* track_error calls next to the statistics loop
MaxReads == 1        \* get_error_stats calls of the reader

Fingerprints == 1..MaxFp

\* the elements of s whose index is in keep, in order
SubSeqByIdx(s, keep) ==
    LET F[i \in 0..Len(s)] ==
            IF i = 0 THEN <<>>
            ELSE IF i \in keep THEN Append(F[i - 1], s[i]) ELSE F[i - 1]
    IN F[Len(s)]

(***************************************************************************)
(* ErrorClassifier.determine_severity, on the signatures the model uses:   *)
(* fingerprint 1 stands for a signature whose exception type contains      *)
(* "systemerror" (CRITICAL), fingerprint 4 for an ordinary exception type   *)
(* whose message contains "fatal" (FATAL); every other signature is an     *)
(* ordinary "...Error" exception type with a plain message (ERROR).        *)
(***************************************************************************)
SeverityOf(fp) ==
    IF fp = 1 THEN "critical" ELSE IF fp = 4 THEN "fatal" ELSE "error"

(***************************************************************************)
(* ErrorClassifier.classify_error, on the same signatures: the message of  *)
(* an even fingerprint contains "invalid" and no other keyword             *)
(* (VALIDATION), an odd one contains no keyword at all (UNKNOWN).          *)
(***************************************************************************)
CategoryOf(fp) == IF fp % 2 = 0 THEN "validation" ELSE "unknown"

(***************************************************************************)
(* ErrorRecord / ErrorAggregator / ErrorTracker                            *)
(***************************************************************************)
HistoryMaxLen == 50000      \* deque(maxlen=50000)
EvictionDivisor == 10       \* len(sorted_errors) // 10
SpikeThreshold == 20        \* len(recent_errors) > 20
SpikeWindow == 600          \* timedelta(minutes=10), in seconds
MaxErrorsChoices == {2, 9}  \* values of max_errors the model constructs
StoreClock == {0, 1}        \* clock readings in the store specification

NoAdd == [fingerprint |-> 0, candidate |-> 0, returned |-> 0, peak |-> 0,
          evicted |-> {}, time |-> 0]

\* ErrorRecord(id=..., timestamp=now, ...) with __post_init__ applied
NewErrorRecord(id, fp, t) ==
    [id |-> id, timestamp |-> t, severity |-> SeverityOf(fp),
     category |-> CategoryOf(fp), fingerprint |-> fp, count |-> 1,
     first_seen |-> t, last_seen |-> t, resolved |-> FALSE,
     resolution_notes |-> "None"]

\* the records a dict holds
IdsIn(cache) == {cache[i] : i \in 1..Len(cache)}

\* positions of the dict whose key is fp
CacheIndex(cache, recs, fp) ==
    {i \in 1..Len(cache) : recs[cache[i]].fingerprint = fp}

CachedFps(cache, recs) == {recs[cache[i]].fingerprint : i \in 1..Len(cache)}

\* add_error with the increment lost
UpdateExistingNoCount(existing, t) ==
    [existing EXCEPT !.last_seen = t]

\* add_error with the increment applied twice (the record and the counts
\* table both bump the record)
UpdateExistingTwice(existing, t) ==
    [existing EXCEPT !.count = @ + 2, !.last_seen = t]

\* an update that also reopens a resolved record
UpdateExistingReopens(existing, t) ==
    [existing EXCEPT !.count = @ + 1, !.last_seen = t, !.resolved = FALSE,
                     !.resolution_notes = "None"]

\* add_error, branch "fingerprint in self.error_cache"
UpdateExisting(existing, t) ==
    [existing EXCEPT !.count = @ + 1, !.last_seen = t]

\* the guard of the clean-up inside add_error
NeedsCleanup(size, max) == size > max

\* to_remove = len(sorted_errors) // 10
ToRemove(size) == size \div EvictionDivisor

\* sorted() that ignores the key and keeps dict order
SortsBeforeInsertion(cache, recs, i, j) == i < j

\* i comes before j in sorted(items, key=last_seen): the sort is stable, so
\* equal keys keep dict order
SortsBefore(cache, recs, i, j) ==
    \/ recs[cache[i]].last_seen < recs[cache[j]].last_seen
    \/ recs[cache[i]].last_seen = recs[cache[j]].last_seen /\ i < j

\* positions of sorted_errors[:to_remove]
EvictedIdx(cache, recs) ==
    {i \in 1..Len(cache) :
        Cardinality({j \in 1..Len(cache) : SortsBefore(cache, recs, j, i)})
            < ToRemove(Len(cache))}

\* _cleanup_old_errors: the dict after the deletions
CleanupOldErrors(cache, recs) ==
    SubSeqByIdx(cache, (1..Len(cache)) \ EvictedIdx(cache, recs))

\* add_error whose "existing" branch hands the candidate back
AddExistingReturnsCandidate(cand, existing) ==
    [records |-> (cand.id :> cand)
                    @@ [records EXCEPT ![existing] = UpdateExisting(@, cand.timestamp)],
     cache |-> error_cache,
     counts |-> [error_counts EXCEPT ![cand.fingerprint] = @ + 1],
     returned |-> cand.id,
     peak |-> Len(error_cache),
     evicted |-> {}]

\* add_error, branch "fingerprint in self.error_cache": existing is the
\* canonical record's id
AddExisting(cand, existing) ==
    [records |-> [records EXCEPT ![existing] = UpdateExisting(@, cand.timestamp)],
     cache |-> error_cache,
     counts |-> [error_counts EXCEPT ![cand.fingerprint] = @ + 1],
     returned |-> existing,
     peak |-> Len(error_cache),
     evicted |-> {}]

\* add_error, branch "else", after the clean-up: cache1 is the dict with the
\* candidate inserted, cache2 the dict the call leaves behind
AddNewResult(cand, recs1, cache1, cache2) ==
    [records |-> recs1,
     cache |-> cache2,
     counts |-> [f \in CachedFps(cache2, recs1) |->
                    IF f = cand.fingerprint THEN 1 ELSE error_counts[f]],
     returned |-> cand.id,
     peak |-> Len(cache1),
     evicted |-> {cache1[i] : i \in 1..Len(cache1)}
                    \ {cache2[i] : i \in 1..Len(cache2)}]

\* add_error, branch "else"
AddNew(cand, recs1, cache1) ==
    AddNewResult(cand, recs1, cache1,
                 IF NeedsCleanup(Len(cache1), max_errors)
                 THEN CleanupOldErrors(cache1, recs1)
                 ELSE cache1)

\* add_error(candidate): the new heap, dict, counts and the returned record
AddError(cand) ==
    IF CacheIndex(error_cache, records, cand.fingerprint) # {}
    THEN AddExisting(cand,
             error_cache[CHOOSE i \in CacheIndex(error_cache, records,
                                                 cand.fingerprint) : TRUE])
    ELSE AddNew(cand, (cand.id :> cand) @@ records, Append(error_cache, cand.id))

\* deque.append with maxlen
HistoryAppend(hist, x) ==
    IF Len(hist) >= HistoryMaxLen THEN Append(Tail(hist), x) ELSE Append(hist, x)

\* the critical rule restricted to FATAL
IsCriticalSeverityFatalOnly(severity) == severity = "fatal"

\* error.severity in [ErrorSeverity.CRITICAL, ErrorSeverity.FATAL]
IsCriticalSeverity(severity) == severity \in {"critical", "fatal"}

\* _check_alert_conditions(error) at time t: the alerts it builds, in order
CheckAlertConditions(recs, hist, e, t) ==
    IF ~alert_callback THEN <<>>
    ELSE (IF IsCriticalSeverity(recs[e].severity)
          THEN <<[name |-> "critical_error", level |-> "CRITICAL",
                  timestamp |-> recs[e].timestamp]>>
          ELSE <<>>)
         \o
         (IF Cardinality({i \in 1..Len(hist) :
                            recs[hist[i]].timestamp > t - SpikeWindow})
                > SpikeThreshold
          THEN <<[name |-> "error_spike", level |-> "WARNING", timestamp |-> t]>>
          ELSE <<>>)

\* the alerts the callback was invoked with: self.alert_callback(alert) is
\* not guarded, so a callback that raises ends _check_alert_conditions at
\* its first invocation
Delivered(alerts) ==
    IF callback_raises /\ alerts # <<>> THEN <<alerts[1]>> ELSE alerts

\* what the caller of a wrapper sees after the wrapper has tracked the
\* exception: the tracker's exception when track_exception raised (no call
\* of track_exception is guarded), otherwise what the wrapper goes on to do
AfterTracking(raised, otherwise) ==
    IF raised THEN "tracking_exception" ELSE otherwise

\* track_error after add_error has returned r for candidate cand
TrackErrorFinish(cand, r, hist, t) ==
    /\ records' = r.records
    /\ error_cache' = r.cache
    /\ error_counts' = r.counts
    /\ error_history' = hist
    /\ next_id' = next_id + 1
    /\ \E alerts \in {CheckAlertConditions(r.records, hist, r.returned, t)} :
          /\ emitted' = Delivered(alerts)
          /\ track_raised' = (callback_raises /\ alerts # <<>>)
    /\ track_times' = Append(track_times, t)
    /\ last_add' = [fingerprint |-> cand.fingerprint, candidate |-> cand.id,
                    returned |-> r.returned, peak |-> r.peak,
                    evicted |-> r.evicted, time |-> t]
    /\ UNCHANGED <<max_errors, alert_callback, callback_raises>>

\* track_error for a signature whose fingerprint is fp, at time t: classify,
\* build the candidate, add_error, append to the history, check the alerts
TrackErrorEffect(fp, t) ==
    \E cand \in {NewErrorRecord(next_id, fp, t)} :
      \E r \in {AddError(cand)} :
        TrackErrorFinish(cand, r, HistoryAppend(error_history, r.returned), t)

UsedFps == {records[i].fingerprint : i \in DOMAIN records}
Retracks == Len(error_history) - Cardinality(UsedFps)

\* Fingerprints are opaque hashes: a fingerprint not used before is always
\* the next unused number.
TrackError(fp) ==
    /\ UNCHANGED auxVars
    /\ fp <= Cardinality(UsedFps) + 1
    /\ fp \in UsedFps =>
          \/ Retracks < MaxRetracks
          \/ UsedFps = {fp} /\ Len(error_history) < MaxSame
    /\ TrackErrorEffect(fp, now)
    /\ UNCHANGED <<now, cbVars, rtVars, alertVars,
                   concVars, guardVars>>

\* set_alert_callback(callback); raises tells whether the callback is one
\* that raises
SetAlertCallback(raises) ==
    /\ UNCHANGED auxVars
    /\ ~alert_callback
    /\ alert_callback' = TRUE
    /\ callback_raises' = raises
    /\ UNCHANGED <<now, max_errors, records, next_id, error_cache, error_counts,
                   error_history, emitted, track_raised, track_times, last_add,
                   cbVars, rtVars, alertVars,
                   concVars, guardVars>>

SpikeFps == {1, 4, 5}          \* a CRITICAL, a FATAL and an ERROR signature
SpikeClock == {0, 300, 900}    \* clock readings in the spike specification

\* track_error in a burst: the signatures come grouped, in ascending order
SpikeTrack(fp) ==
    /\ UNCHANGED auxVars
    /\ Len(error_history) < MaxBurst
    /\ error_history # <<>> =>
          fp >= records[error_history[Len(error_history)]].fingerprint
    /\ Cardinality(UsedFps \cup {fp}) <= MaxSpikeFps
    /\ TrackErrorEffect(fp, now)
    /\ UNCHANGED <<now, cbVars, rtVars, alertVars,
                   concVars, guardVars>>

SpikeTick(t) ==
    /\ UNCHANGED auxVars
    /\ t > now
    /\ now' = t
    /\ UNCHANGED <<storeVars, cbVars, rtVars, alertVars,
                   concVars, guardVars>>

Tick ==
    /\ UNCHANGED auxVars
    /\ now + 1 \in StoreClock
    /\ now' = now + 1
    /\ UNCHANGED <<storeVars, cbVars, rtVars, alertVars,
                   concVars, guardVars>>

StoreInit(max) ==
    /\ max_errors = max
    /\ records = <<>>
    /\ next_id = 1
    /\ error_cache = <<>>
    /\ error_counts = <<>>
    /\ error_history = <<>>
    /\ alert_callback = FALSE
    /\ callback_raises = FALSE
    /\ emitted = <<>>
    /\ track_raised = FALSE
    /\ track_times = <<>>
    /\ last_add = NoAdd

(***************************************************************************)
(* CircuitBreaker                                                          *)
(***************************************************************************)
None == -1           \* last_failure_time = None
CbFp == 2            \* fingerprint of the wrapped function's tripped exception
CbOutcomes == {"ok", "fail", "other"}
    \* the wrapped function returns, raises an expected_exception, or raises
    \* an exception that is not an expected_exception

\* exception classes: ValueError derives from Exception, KeyboardInterrupt
\* from BaseException only; CallbackError is what a raising alert callback
\* raises
ExceptionClasses == {"Exception", "ValueError", "KeyboardInterrupt"}
ExpectedChoices == {"Exception", "ValueError"}

\* isinstance(an exception of class cls, of)
IsInstance(cls, of) == cls = of \/ (of = "Exception" /\ cls = "ValueError")

\* raise Exception(f"Circuit breaker is OPEN for {func.__name__}")
CircuitOpenClass == "Exception"

\* the classes the wrapped function's exception can have for an outcome
ClassesOf(outcome, expected) ==
    CASE outcome = "ok" -> {"none"}
      [] outcome = "fail" -> {c \in ExceptionClasses : IsInstance(c, expected)}
      [] outcome = "other" -> {c \in ExceptionClasses : ~IsInstance(c, expected)}

\* _should_attempt_reset with the timeout left out of the comparison
ShouldAttemptResetNoWait(t, lft, timeout) == (t - lft) >= 0

\* _should_attempt_reset with a strict comparison
ShouldAttemptResetStrict(t, lft, timeout) == (t - lft) > timeout

\* _should_attempt_reset
ShouldAttemptReset(t, lft, timeout) == (t - lft) >= timeout

\* _on_success that closes the circuit and keeps the failure count
OnSuccessKeepCount == [failure_count |-> failure_count, state |-> "closed"]

\* _on_success
OnSuccess == [failure_count |-> 0, state |-> "closed"]

\* _on_failure that leaves last_failure_time as it was
OnFailureStaleTime(fc, st, thr, t) ==
    [failure_count |-> fc + 1,
     last_failure_time |-> last_failure_time,
     state |-> IF fc + 1 >= thr THEN "open" ELSE st]

\* _on_failure that opens only above the threshold
OnFailureAbove(fc, st, thr, t) ==
    [failure_count |-> fc + 1,
     last_failure_time |-> t,
     state |-> IF fc + 1 > thr THEN "open" ELSE st]

\* _on_failure, the breaker's own fields
OnFailure(fc, st, thr, t) ==
    [failure_count |-> fc + 1,
     last_failure_time |-> t,
     state |-> IF fc + 1 >= thr THEN "open" ELSE st]

\* wrapper, up to the moment the wrapped function is entered or the call is
\* refused
CBCall ==
    /\ UNCHANGED auxVars
    /\ cb_pc = "idle"
    /\ cb_calls < MaxCalls
    /\ cb_calls' = cb_calls + 1
    /\ IF cb_state = "open"
          /\ ~ShouldAttemptReset(now, last_failure_time, recovery_timeout)
       THEN /\ cb_result' = "circuit_open"
            /\ cb_raised' = CircuitOpenClass
            /\ UNCHANGED <<cb_state, cb_pc, cb_trial, invocations>>
       ELSE /\ cb_state' = IF cb_state = "open" THEN "half-open" ELSE cb_state
            /\ cb_trial' = (cb_state = "open")
            /\ cb_pc' = "running"
            /\ invocations' = invocations + 1
            /\ UNCHANGED <<cb_result, cb_raised>>
    /\ UNCHANGED <<now, failure_threshold, recovery_timeout, expected_exception,
                   failure_count,
                   last_failure_time, cb_log, storeVars, rtVars, alertVars,
                   concVars, guardVars>>

\* wrapper, from the end of the wrapped function to the end of the call
CBReturn(outcome) ==
    /\ UNCHANGED auxVars
    /\ cb_pc = "running"
    /\ cb_pc' = "idle"
    /\ cb_trial' = FALSE
    /\ cb_log' = Append(cb_log, outcome)
    /\ CASE outcome = "ok" ->
              /\ failure_count' = OnSuccess.failure_count
              /\ cb_state' = OnSuccess.state
              /\ UNCHANGED <<last_failure_time, storeVars>>
         [] outcome = "fail" ->
              LET f == OnFailure(failure_count, cb_state, failure_threshold, now)
              IN /\ failure_count' = f.failure_count
                 /\ last_failure_time' = f.last_failure_time
                 /\ cb_state' = f.state
                 /\ TrackErrorEffect(CbFp, now)
         [] outcome = "other" ->
              UNCHANGED <<failure_count, cb_state, last_failure_time, storeVars>>
    /\ cb_result' = IF outcome = "fail"
                    THEN AfterTracking(track_raised', outcome) ELSE outcome
    /\ \E cls \in ClassesOf(outcome, expected_exception) :
          cb_raised' = IF outcome = "fail" /\ track_raised'
                       THEN "CallbackError" ELSE cls
    /\ UNCHANGED <<now, failure_threshold, recovery_timeout, expected_exception,
                   cb_calls,
                   invocations, rtVars, alertVars,
                   concVars, guardVars>>

CBTick ==
    /\ UNCHANGED auxVars
    /\ now < MaxCbTime
    /\ now' = now + 1
    /\ UNCHANGED <<storeVars, cbVars, rtVars, alertVars,
                   concVars, guardVars>>

CbInit(thr, timeout, expected) ==
    /\ failure_threshold = thr
    /\ recovery_timeout = timeout
    /\ expected_exception = expected
    /\ cb_state = "closed"
    /\ failure_count = 0
    /\ last_failure_time = None
    /\ cb_pc = "idle"
    /\ cb_trial = FALSE
    /\ cb_result = "none"
    /\ cb_raised = "none"
    /\ cb_calls = 0
    /\ invocations = 0
    /\ cb_log = <<>>

(***************************************************************************)
(* with_retry                                                              *)
(***************************************************************************)
RtFp == 3            \* fingerprint of the wrapped function's retryable exception
RtOutcomes == {"ok", "retryable", "other"}
    \* func returns, raises one of `exceptions`, or raises something else
RtDelays == {0, 1, 3}
RtBackoffs == {1, 2, 3}
RtCallbacks == {"none", "ok", "raises"}
NoResult == [kind |-> "none", attempt |-> 0]

\* range(max_attempts - 1)
LoopEndShort(n) == n - 1

\* range(max_attempts): the loop runs while attempt < LoopEnd
LoopEnd(n) == n

\* on_retry called with the 0-based loop variable
OnRetryArgZeroBased(attempt) == attempt

\* on_retry(attempt + 1, e, ...)
OnRetryArg(attempt) == attempt + 1

\* a delay that grows by addition
NextDelayAdd(current_delay, backoff_factor) == current_delay + backoff_factor

\* current_delay *= backoff_factor
NextDelay(current_delay, backoff_factor) == current_delay * backoff_factor

\* attempt == max_attempts - 1
IsLastAttempt(attempt, n) == attempt = n - 1

\* a call of wrapper: the loop is entered, or range() is empty and
\* `raise last_exception` raises a TypeError with last_exception = None
RetryCall ==
    /\ UNCHANGED auxVars
    /\ rt_pc = "idle"
    /\ rt_attempt' = 0
    /\ rt_current_delay' = rt_delay
    /\ IF 0 < LoopEnd(rt_max_attempts)
       THEN rt_pc' = "loop" /\ UNCHANGED rt_result
       ELSE rt_pc' = "done" /\ rt_result' = [kind |-> "type_error", attempt |-> 0]
    /\ UNCHANGED <<now, rt_max_attempts, rt_delay, rt_backoff, rt_on_retry,
                   rt_outcomes, rt_sleeps, rt_callbacks, storeVars, cbVars,
                   alertVars,
                   concVars, guardVars>>

\* one iteration of the loop, the sleep included
RetryAttempt(outcome) ==
    /\ UNCHANGED auxVars
    /\ rt_pc = "loop"
    /\ rt_outcomes' = Append(rt_outcomes, outcome)
    /\ CASE outcome = "ok" ->
              /\ rt_pc' = "done"
              /\ rt_result' = [kind |-> "returned", attempt |-> rt_attempt + 1]
              /\ UNCHANGED <<now, rt_attempt, rt_current_delay, rt_sleeps,
                             rt_callbacks, storeVars>>
         [] outcome = "other" ->
              /\ rt_pc' = "done"
              /\ rt_result' = [kind |-> "raised", attempt |-> rt_attempt + 1]
              /\ UNCHANGED <<now, rt_attempt, rt_current_delay, rt_sleeps,
                             rt_callbacks, storeVars>>
         [] outcome = "retryable" /\ IsLastAttempt(rt_attempt, rt_max_attempts) ->
              /\ TrackErrorEffect(RtFp, now)
              /\ rt_pc' = "done"
              /\ rt_result' = [kind |-> AfterTracking(track_raised', "raised"),
                               attempt |-> rt_attempt + 1]
              /\ UNCHANGED <<now, rt_attempt, rt_current_delay, rt_sleeps,
                             rt_callbacks>>
         [] outcome = "retryable" /\ ~IsLastAttempt(rt_attempt, rt_max_attempts) ->
              /\ rt_callbacks' = IF rt_on_retry = "none" THEN rt_callbacks
                                 ELSE Append(rt_callbacks, OnRetryArg(rt_attempt))
              /\ rt_sleeps' = Append(rt_sleeps, rt_current_delay)
              /\ now' = now + rt_current_delay
              /\ rt_current_delay' = NextDelay(rt_current_delay, rt_backoff)
              /\ rt_attempt' = rt_attempt + 1
              /\ IF rt_attempt + 1 < LoopEnd(rt_max_attempts)
                 THEN UNCHANGED <<rt_pc, rt_result>>
                 ELSE /\ rt_pc' = "done"    \* raise last_exception
                      /\ rt_result' = [kind |-> "raised", attempt |-> rt_attempt + 1]
              /\ UNCHANGED storeVars
    /\ UNCHANGED <<rt_max_attempts, rt_delay, rt_backoff, rt_on_retry, cbVars,
                   alertVars,
                   concVars, guardVars>>

RtInit(n, d, b, cb) ==
    /\ rt_max_attempts = n
    /\ rt_delay = d
    /\ rt_backoff = b
    /\ rt_on_retry = cb
    /\ rt_pc = "idle"
    /\ rt_attempt = 0
    /\ rt_current_delay = d
    /\ rt_outcomes = <<>>
    /\ rt_sleeps = <<>>
    /\ rt_callbacks = <<>>
    /\ rt_result = NoResult

(***************************************************************************)
(* AlertAggregator                                                         *)
(***************************************************************************)
AggregationWindow == 300    \* self.aggregation_window
MaxCacheSize == 1000        \* self.max_cache_size
AlertNames == {"cpu", "cpu:WARNING"}
AlertLevels == {"WARNING", "WARNING:WARNING"}
AlertTickSteps == {150, 299}

\* cache_key = f"{alert.name}:{alert.level}"
CacheKey(name, level) == name \o ":" \o level

\* _cleanup_cache with a cutoff that also removes an entry last seen
\* exactly 2 * aggregation_window ago
CleanupCacheInclusive(cache, t) ==
    IF Cardinality(DOMAIN cache) <= MaxCacheSize THEN cache
    ELSE LET cutoff == t - AggregationWindow * 2
         IN [k \in {x \in DOMAIN cache : ~(cache[x].last_seen <= cutoff)}
                |-> cache[k]]

\* _cleanup_cache at time t
CleanupCache(cache, t) ==
    IF Cardinality(DOMAIN cache) <= MaxCacheSize THEN cache
    ELSE LET cutoff == t - AggregationWindow * 2
         IN [k \in {x \in DOMAIN cache : ~(cache[x].last_seen < cutoff)}
                |-> cache[k]]

\* the test of should_send_alert with the comparison inverted
WithinWindowInverted(t, last_sent) == (t - last_sent) > AggregationWindow

\* the test "seen recently" of should_send_alert
WithinWindow(t, last_sent) == (t - last_sent) < AggregationWindow

\* should_send_alert in which a suppressed occurrence also moves last_sent,
\* so that every occurrence extends the window
ShouldSendAlertResultExtending(cache, name, level, t) ==
    LET key == CacheKey(name, level)
    IN IF key \in DOMAIN cache /\ WithinWindow(t, cache[key].last_sent)
       THEN [cache |-> [cache EXCEPT ![key].count = @ + 1, ![key].last_seen = t,
                                     ![key].last_sent = t],
             sent |-> FALSE]
       ELSE LET entry == [count |-> 1, last_sent |-> t, last_seen |-> t,
                          first_seen |-> t]
                cache1 == (key :> entry) @@ cache
            IN [cache |-> CleanupCache(cache1, t), sent |-> TRUE]

\* should_send_alert(alert) at time t: the new cache and the value returned
ShouldSendAlertResult(cache, name, level, t) ==
    LET key == CacheKey(name, level)
    IN IF key \in DOMAIN cache /\ WithinWindow(t, cache[key].last_sent)
       THEN [cache |-> [cache EXCEPT ![key].count = @ + 1, ![key].last_seen = t],
             sent |-> FALSE]
       ELSE LET entry == [count |-> 1, last_sent |-> t, last_seen |-> t,
                          first_seen |-> t]
                cache1 == (key :> entry) @@ cache
            IN [cache |-> CleanupCache(cache1, t), sent |-> TRUE]

ShouldSendAlert(name, level) ==
    /\ UNCHANGED auxVars
    /\ Len(alert_log) < MaxAlertCalls
    /\ LET r == ShouldSendAlertResult(alert_cache, name, level, now)
       IN /\ alert_cache' = r.cache
          /\ alert_log' = Append(alert_log, [name |-> name, level |-> level,
                                             time |-> now, sent |-> r.sent])
    /\ UNCHANGED <<now, storeVars, cbVars, rtVars, concVars, guardVars>>

AlertTick(d) ==
    /\ UNCHANGED auxVars
    /\ now + d <= MaxAlertTime
    /\ now' = now + d
    /\ UNCHANGED <<storeVars, cbVars, rtVars, alertVars,
                   concVars, guardVars>>

AlertInit ==
    /\ alert_cache = <<>>
    /\ alert_log = <<>>

\* A cache that max_cache_size earlier dispatches of distinct alerts have
\* filled: the first OldEntries keys were dispatched at time 0, the others
\* at time FilledCacheTime; the second key was dispatched at time 0 and
\* suppressed once at FilledCacheTime.
OldEntries == 500
FilledCacheTime == 100
FilledName(i) == "alert" \o ToString(i)
FilledLevel == "INFO"
FilledEntry(i) ==
    IF i = 2
    THEN [count |-> 2, last_sent |-> 0, last_seen |-> FilledCacheTime,
          first_seen |-> 0]
    ELSE IF i <= OldEntries
    THEN [count |-> 1, last_sent |-> 0, last_seen |-> 0, first_seen |-> 0]
    ELSE [count |-> 1, last_sent |-> FilledCacheTime,
          last_seen |-> FilledCacheTime, first_seen |-> FilledCacheTime]
FilledKeys == {CacheKey(FilledName(i), FilledLevel) : i \in 1..MaxCacheSize}
FilledCache ==
    [k \in FilledKeys |->
        FilledEntry(CHOOSE i \in 1..MaxCacheSize :
                        k = CacheKey(FilledName(i), FilledLevel))]

FilledCacheInit ==
    /\ alert_cache = FilledCache
    /\ alert_log = <<>>

\* alerts sent to the full cache: two cached ones and two new ones
CacheNames == {FilledName(1), FilledName(MaxCacheSize), "disk", "net"}
CacheTickSteps == {300, 600}

CacheTick(d) ==
    /\ UNCHANGED auxVars
    /\ now + d <= MaxCacheTime
    /\ now' = now + d
    /\ UNCHANGED <<storeVars, cbVars, rtVars, alertVars,
                   concVars, guardVars>>

(***************************************************************************)
(* Concurrent callers.  Neither ErrorTracker nor CircuitBreaker takes a     *)
(* lock, so a thread can be pre-empted between any two accesses to the     *)
(* shared objects; each action below is one such access.                   *)
(***************************************************************************)
ConcThreads == {1, 2}
ConcFps == {1, 2}

ThIdle == [pc |-> "idle", fp |-> 0, cand |-> 0, existing |-> 0,
           count_read |-> 0, counts_read |-> 0, returned |-> 0]

CthIdle == [pc |-> "idle", fc_read |-> 0]

ConcInit ==
    /\ th = [t \in ConcThreads |-> ThIdle]
    /\ cth = [t \in ConcThreads |-> CthIdle]

\* error_counts[fp] read through the defaultdict
CountsGet(counts, fp) == IF fp \in DOMAIN counts THEN counts[fp] ELSE 0

\* track_error, lines 464-489: classify and build the candidate record
ThStart(t, fp) ==
    /\ UNCHANGED auxVars
    /\ th[t].pc = "idle"
    /\ th' = [th EXCEPT ![t] = [ThIdle EXCEPT !.pc = "check", !.fp = fp,
                                               !.cand = next_id]]
    /\ records' = (next_id :> NewErrorRecord(next_id, fp, now)) @@ records
    /\ next_id' = next_id + 1
    /\ UNCHANGED <<now, max_errors, error_cache, error_counts, error_history,
                   alert_callback, callback_raises, emitted, track_raised,
                   track_times, last_add, cth, cbVars, rtVars, alertVars,
                   guardVars>>

\* add_error, line 324: fingerprint in self.error_cache
ThCheck(t) ==
    /\ UNCHANGED auxVars
    /\ th[t].pc = "check"
    /\ th' = [th EXCEPT ![t].pc =
                 IF CacheIndex(error_cache, records, th[t].fp) # {}
                 THEN "load_count" ELSE "insert"]
    /\ UNCHANGED <<now, storeVars, cth, cbVars, rtVars, alertVars, guardVars>>

\* add_error, lines 326-327: existing = error_cache[fingerprint] and the
\* read half of existing.count += 1
ThLoadCount(t) ==
    /\ UNCHANGED auxVars
    /\ th[t].pc = "load_count"
    /\ CacheIndex(error_cache, records, th[t].fp) # {}
    /\ \E i \in CacheIndex(error_cache, records, th[t].fp) :
          th' = [th EXCEPT ![t].pc = "store_count",
                           ![t].existing = error_cache[i],
                           ![t].count_read = records[error_cache[i]].count]
    /\ UNCHANGED <<now, storeVars, cth, cbVars, rtVars, alertVars, guardVars>>

\* add_error, lines 327-328: the write half of existing.count += 1, and
\* existing.last_seen
ThStoreCount(t) ==
    /\ UNCHANGED auxVars
    /\ th[t].pc = "store_count"
    /\ records' = [records EXCEPT
                      ![th[t].existing].count = th[t].count_read + 1,
                      ![th[t].existing].last_seen = records[th[t].cand].timestamp]
    /\ th' = [th EXCEPT ![t].pc = "load_counts"]
    /\ UNCHANGED <<now, max_errors, next_id, error_cache, error_counts,
                   error_history, alert_callback, callback_raises, emitted,
                   track_raised, track_times, last_add, cth, cbVars, rtVars,
                   alertVars, guardVars>>

\* add_error, line 329: the read half of error_counts[fingerprint] += 1
ThLoadCounts(t) ==
    /\ UNCHANGED auxVars
    /\ th[t].pc = "load_counts"
    /\ th' = [th EXCEPT ![t].pc = "store_counts",
                        ![t].counts_read = CountsGet(error_counts, th[t].fp)]
    /\ UNCHANGED <<now, storeVars, cth, cbVars, rtVars, alertVars, guardVars>>

\* add_error, lines 329-330: the write half, and return existing
ThStoreCounts(t) ==
    /\ UNCHANGED auxVars
    /\ th[t].pc = "store_counts"
    /\ error_counts' = (th[t].fp :> th[t].counts_read + 1) @@ error_counts
    /\ th' = [th EXCEPT ![t].pc = "append", ![t].returned = th[t].existing]
    /\ last_add' = [fingerprint |-> th[t].fp, candidate |-> th[t].cand,
                    returned |-> th[t].existing, peak |-> Len(error_cache),
                    evicted |-> {}, time |-> records[th[t].cand].timestamp]
    /\ UNCHANGED <<now, max_errors, records, next_id, error_cache,
                   error_history, alert_callback, callback_raises, emitted,
                   track_raised, track_times, cth, cbVars, rtVars, alertVars,
                   guardVars>>

\* self.error_cache[fingerprint] = error_record: a key that is present
\* keeps its place in the dict and gets the new value
DictSet(cache, recs, fp, id) ==
    IF CacheIndex(cache, recs, fp) = {} THEN Append(cache, id)
    ELSE [i \in 1..Len(cache) |->
             IF i \in CacheIndex(cache, recs, fp) THEN id ELSE cache[i]]

\* add_error, line 333
ThInsert(t) ==
    /\ UNCHANGED auxVars
    /\ th[t].pc = "insert"
    /\ error_cache' = DictSet(error_cache, records, th[t].fp, th[t].cand)
    /\ th' = [th EXCEPT ![t].pc = "set_counts"]
    /\ UNCHANGED <<now, max_errors, records, next_id, error_counts,
                   error_history, alert_callback, callback_raises, emitted,
                   track_raised, track_times, last_add, cth, cbVars, rtVars,
                   alertVars, guardVars>>

\* add_error, lines 334-340: error_counts[fingerprint] = 1, the clean-up,
\* return error_record
ThSetCounts(t) ==
    /\ UNCHANGED auxVars
    /\ th[t].pc = "set_counts"
    /\ \E cache2 \in {IF NeedsCleanup(Len(error_cache), max_errors)
                       THEN CleanupOldErrors(error_cache, records)
                       ELSE error_cache} :
          /\ error_cache' = cache2
          /\ error_counts' =
                [f \in CachedFps(cache2, records) |->
                    IF f = th[t].fp THEN 1 ELSE CountsGet(error_counts, f)]
          /\ last_add' = [fingerprint |-> th[t].fp, candidate |-> th[t].cand,
                          returned |-> th[t].cand, peak |-> Len(error_cache),
                          evicted |-> IdsIn(error_cache) \ IdsIn(cache2),
                          time |-> records[th[t].cand].timestamp]
    /\ th' = [th EXCEPT ![t].pc = "append", ![t].returned = th[t].cand]
    /\ UNCHANGED <<now, max_errors, records, next_id, error_history,
                   alert_callback, callback_raises, emitted, track_raised,
                   track_times, cth, cbVars, rtVars, alertVars, guardVars>>

\* track_error, lines 495-501: append to the history, check the alerts,
\* return aggregated_error
ThFinish(t) ==
    /\ UNCHANGED auxVars
    /\ th[t].pc = "append"
    /\ \E hist \in {HistoryAppend(error_history, th[t].returned)} :
         \E alerts \in {CheckAlertConditions(records, hist, th[t].returned, now)} :
          /\ error_history' = hist
          /\ emitted' = Delivered(alerts)
          /\ track_raised' = (callback_raises /\ alerts # <<>>)
    /\ track_times' = Append(track_times, records[th[t].cand].timestamp)
    /\ th' = [th EXCEPT ![t].pc = "done"]
    /\ UNCHANGED <<now, max_errors, records, next_id, error_cache,
                   error_counts, alert_callback, callback_raises, last_add,
                   cth, cbVars, rtVars, alertVars, guardVars>>

\* a track_error call that runs to its end before any thread starts
TrackErrorFirst(fp) ==
    /\ UNCHANGED auxVars
    /\ \A t \in ConcThreads : th[t].pc = "idle"
    /\ error_history = <<>>
    /\ TrackErrorEffect(fp, now)
    /\ UNCHANGED <<now, cbVars, rtVars, alertVars, concVars, guardVars>>

\* wrapper, lines 382-389, for a wrapped function that raises an
\* expected_exception: the gate, the execution and the entry of _on_failure
CthEnter(t) ==
    /\ UNCHANGED auxVars
    /\ cth[t].pc = "idle"
    /\ cb_calls' = cb_calls + 1
    /\ IF cb_state = "open"
          /\ ~ShouldAttemptReset(now, last_failure_time, recovery_timeout)
       THEN /\ cth' = [cth EXCEPT ![t].pc = "refused"]
            /\ cb_result' = "circuit_open"
            /\ cb_raised' = CircuitOpenClass
            /\ UNCHANGED <<cb_state, invocations, cb_log>>
       ELSE /\ cth' = [cth EXCEPT ![t].pc = "load"]
            /\ cb_state' = IF cb_state = "open" THEN "half-open" ELSE cb_state
            /\ invocations' = invocations + 1
            /\ cb_log' = Append(cb_log, "fail")
            /\ UNCHANGED <<cb_result, cb_raised>>
    /\ UNCHANGED <<now, failure_threshold, recovery_timeout, expected_exception,
                   failure_count,
                   last_failure_time, cb_pc, cb_trial, th, storeVars, rtVars,
                   alertVars, guardVars>>

\* _on_failure, line 409: the read half of self.failure_count += 1
CthLoad(t) ==
    /\ UNCHANGED auxVars
    /\ cth[t].pc = "load"
    /\ cth' = [cth EXCEPT ![t].pc = "store", ![t].fc_read = failure_count]
    /\ UNCHANGED <<now, cbVars, th, storeVars, rtVars, alertVars, guardVars>>

\* _on_failure, lines 409-410: the write half, and last_failure_time
CthStore(t) ==
    /\ UNCHANGED auxVars
    /\ cth[t].pc = "store"
    /\ failure_count' = cth[t].fc_read + 1
    /\ last_failure_time' = now
    /\ cth' = [cth EXCEPT ![t].pc = "trip"]
    /\ UNCHANGED <<now, failure_threshold, recovery_timeout, expected_exception,
                   cb_state, cb_pc, cb_trial, cb_result, cb_raised, cb_calls, invocations, cb_log, th,
                   storeVars, rtVars, alertVars, guardVars>>

\* _on_failure, lines 412-413: the threshold test on the shared counter
CthTrip(t) ==
    /\ UNCHANGED auxVars
    /\ cth[t].pc = "trip"
    /\ cb_state' = IF failure_count >= failure_threshold THEN "open"
                   ELSE cb_state
    /\ cth' = [cth EXCEPT ![t].pc = "track"]
    /\ UNCHANGED <<now, failure_threshold, recovery_timeout, expected_exception,
                   failure_count, last_failure_time, cb_pc, cb_trial,
                   cb_result, cb_raised, cb_calls,
                   invocations, cb_log, th, storeVars, rtVars, alertVars,
                   guardVars>>

\* _on_failure, lines 417-425, and the re-raise of line 394
CthTrack(t) ==
    /\ UNCHANGED auxVars
    /\ cth[t].pc = "track"
    /\ TrackErrorEffect(CbFp, now)
    /\ cth' = [cth EXCEPT ![t].pc = "done"]
    /\ cb_result' = AfterTracking(track_raised', "fail")
    /\ cb_raised' = IF track_raised' THEN "CallbackError" ELSE "Exception"
    /\ UNCHANGED <<now, failure_threshold, recovery_timeout, expected_exception,
                   cb_state,
                   failure_count, last_failure_time, cb_pc, cb_trial, cb_calls,
                   invocations, cb_log, th, rtVars, alertVars, guardVars>>

(***************************************************************************)
(* with_fallback, ErrorBoundary, safe_execute                              *)
(***************************************************************************)
NoOp == [wrapper |-> "none", outcome |-> "none", seen |-> "none",
         reraise |-> FALSE, track_errors |-> FALSE, recorded |-> FALSE,
         get_result |-> "none", calls |-> 0, history_before |-> 0]
    \* calls: executions of the protected code; recorded: boundary.errors got
    \* an entry; get_result: what boundary.get_result() yields afterwards;
    \* history_before: len(error_history) when the wrapper was entered
SeIdle == [pc |-> "idle", retry_count |-> 0, attempt |-> 0]
GuardFps == {1, 5}     \* a CRITICAL and an ERROR signature
GuardOutcomes == {"ok", "caught", "other"}
    \* the protected code returns, raises an exception the wrapper catches,
    \* or raises one it does not catch

\* with_fallback: wrapper
FallbackCall(outcome, fp) ==
    /\ UNCHANGED auxVars
    /\ se.pc = "idle"
    /\ CASE outcome = "ok" ->
              /\ op_result' = [NoOp EXCEPT !.wrapper = "with_fallback",
                                           !.outcome = outcome, !.seen = "value",
                                           !.calls = 1]
              /\ UNCHANGED storeVars
         [] outcome = "other" ->
              /\ op_result' = [NoOp EXCEPT !.wrapper = "with_fallback",
                                           !.outcome = outcome, !.calls = 1,
                                           !.seen = "op_exception"]
              /\ UNCHANGED storeVars
         [] outcome = "caught" ->
              /\ Len(error_history) < MaxGuardTracks
              /\ TrackErrorEffect(fp, now)
              /\ op_result' = [NoOp EXCEPT
                                  !.wrapper = "with_fallback",
                                  !.outcome = outcome, !.calls = 1,
                                  !.seen = AfterTracking(track_raised', "fallback")]
    /\ UNCHANGED <<now, se, cbVars, rtVars, alertVars, concVars>>

\* ErrorBoundary.get_result() of a boundary built with a fallback_value
\* other than None: the fallback when self.errors has an entry, else None
GetResult(recorded) == IF recorded THEN "fallback" ELSE "none"

\* ErrorBoundary.__exit__ for a body that returned (raised = FALSE) or
\* raised an exception of signature fp
BoundaryExit(reraise, track_errors, raised, fp) ==
    /\ UNCHANGED auxVars
    /\ se.pc = "idle"
    /\ IF ~raised
       THEN /\ op_result' = [NoOp EXCEPT !.wrapper = "error_boundary",
                                         !.outcome = "ok", !.seen = "value",
                                         !.reraise = reraise, !.calls = 1,
                                         !.track_errors = track_errors,
                                         !.get_result = GetResult(FALSE)]
            /\ UNCHANGED storeVars
       ELSE IF ~track_errors
       THEN /\ op_result' = [NoOp EXCEPT
                                !.wrapper = "error_boundary",
                                !.outcome = "caught", !.reraise = reraise,
                                !.calls = 1, !.track_errors = track_errors,
                                !.get_result = GetResult(FALSE),
                                !.seen = IF reraise THEN "op_exception"
                                         ELSE "swallowed"]
            /\ UNCHANGED storeVars
       ELSE /\ Len(error_history) < MaxGuardTracks
            /\ TrackErrorEffect(fp, now)
            /\ op_result' = [NoOp EXCEPT
                                !.wrapper = "error_boundary",
                                !.outcome = "caught", !.reraise = reraise,
                                !.calls = 1, !.track_errors = track_errors,
                                !.recorded = ~track_raised',
                                !.get_result = GetResult(~track_raised'),
                                !.seen = AfterTracking(track_raised',
                                            IF reraise THEN "op_exception"
                                            ELSE "swallowed")]
    /\ UNCHANGED <<now, se, cbVars, rtVars, alertVars, concVars>>

\* safe_execute that makes one attempt too many
SeHasNextAttemptInclusive(attempt, retry_count) == attempt <= retry_count

\* the loop variable of range(retry_count + 1) has a successor
SeHasNextAttempt(attempt, retry_count) == attempt < retry_count

\* safe_execute(func, retry_count=n): entry
SafeExecuteCall(n) ==
    /\ UNCHANGED auxVars
    /\ se.pc = "idle"
    /\ se' = [pc |-> "loop", retry_count |-> n, attempt |-> 0]
    /\ UNCHANGED <<now, op_result, storeVars, cbVars, rtVars, alertVars, concVars>>

\* safe_execute: one iteration of the loop, the sleep included
SafeExecuteAttempt(outcome, fp) ==
    /\ UNCHANGED auxVars
    /\ se.pc = "loop"
    /\ CASE outcome = "ok" ->
              /\ op_result' = [NoOp EXCEPT !.wrapper = "safe_execute",
                                           !.outcome = outcome, !.seen = "value",
                                           !.calls = se.attempt + 1]
              /\ se' = SeIdle
              /\ UNCHANGED <<now, storeVars>>
         [] outcome = "other" ->
              /\ op_result' = [NoOp EXCEPT !.wrapper = "safe_execute",
                                           !.outcome = outcome,
                                           !.calls = se.attempt + 1,
                                           !.seen = "op_exception"]
              /\ se' = SeIdle
              /\ UNCHANGED <<now, storeVars>>
         [] outcome = "caught" ->
              /\ Len(error_history) < MaxGuardTracks
              /\ TrackErrorEffect(fp, now)
              /\ IF track_raised'
                 THEN /\ op_result' = [NoOp EXCEPT
                                          !.wrapper = "safe_execute",
                                          !.outcome = outcome,
                                          !.calls = se.attempt + 1,
                                          !.seen = "tracking_exception"]
                      /\ se' = SeIdle
                      /\ UNCHANGED now
                 ELSE IF SeHasNextAttempt(se.attempt, se.retry_count)
                 THEN /\ se' = [se EXCEPT !.attempt = @ + 1]
                      /\ now' = now + (se.attempt + 1)
                      /\ UNCHANGED op_result
                 ELSE /\ op_result' = [NoOp EXCEPT
                                          !.wrapper = "safe_execute",
                                          !.outcome = outcome,
                                          !.calls = se.attempt + 1,
                                          !.seen = "fallback"]
                      /\ se' = SeIdle
                      /\ UNCHANGED now
    /\ UNCHANGED <<cbVars, rtVars, alertVars, concVars>>

GuardInit ==
    /\ op_result = NoOp
    /\ se = SeIdle

(***************************************************************************)
(* The composed handlers handle_file_operations, handle_network_operations *)
(* and handle_api_calls: with_error_tracking(with_retry(func)), both with  *)
(* max_attempts = 3 and reraise = True.  functools.wraps gives the retry   *)
(* wrapper the name and module of func, so both wrappers build the same    *)
(* context; the stack trace that track_exception formats in                *)
(* with_error_tracking starts with the frames of with_error_tracking and   *)
(* of `raise e` in with_retry, which are lines of customer_snapshot, so    *)
(* its first three relevant stack lines, and with them the fingerprint,    *)
(* differ from those of the tracking made inside with_retry.               *)
(***************************************************************************)
HandlerAttempts == 3       \* max_attempts=3
HandlerBackoff == 2        \* backoff_factor, default 2.0
HandlerDelays == {1, 2}    \* delay: default 1.0, 2.0 for network operations
HandlerFp == 5       \* the retryable exception as with_error_tracking sees it
HandlerOtherFp == 7  \* an exception that is not one of `exceptions`
HandlerTrackFps == {1, RtFp}

\* the signature of the exception that leaves with_retry
HandlerFpOf(kind) ==
    IF kind = "raised" /\ rt_outcomes[Len(rt_outcomes)] = "other"
    THEN HandlerOtherFp
    ELSE HandlerFp

\* with_error_tracking: wrapper is entered and calls the retry wrapper
HandlerCall ==
    /\ UNCHANGED auxVars
    /\ rt_pc = "idle"
    /\ op_result = NoOp
    /\ op_result' = [NoOp EXCEPT !.wrapper = "with_error_tracking",
                                 !.outcome = "running", !.reraise = TRUE,
                                 !.history_before = Len(error_history)]
    /\ rt_attempt' = 0
    /\ rt_current_delay' = rt_delay
    /\ IF 0 < LoopEnd(rt_max_attempts)
       THEN rt_pc' = "loop" /\ UNCHANGED rt_result
       ELSE rt_pc' = "done" /\ rt_result' = [kind |-> "type_error", attempt |-> 0]
    /\ UNCHANGED <<now, se, rt_max_attempts, rt_delay, rt_backoff, rt_on_retry,
                   rt_outcomes, rt_sleeps, rt_callbacks, storeVars, cbVars,
                   alertVars, concVars>>

\* with_error_tracking: the retry wrapper has returned or raised
HandlerReturn ==
    /\ UNCHANGED auxVars
    /\ rt_pc = "done"
    /\ op_result.wrapper = "with_error_tracking"
    /\ op_result.outcome = "running"
    /\ IF rt_result.kind = "returned"
       THEN /\ op_result' = [op_result EXCEPT !.outcome = "ok", !.seen = "value",
                                              !.calls = rt_result.attempt]
            /\ UNCHANGED storeVars
       ELSE /\ TrackErrorEffect(HandlerFpOf(rt_result.kind), now)
            /\ op_result' = [op_result EXCEPT
                                !.outcome = "caught",
                                !.calls = rt_result.attempt,
                                !.seen = AfterTracking(track_raised',
                                                       "op_exception")]
    /\ UNCHANGED <<now, se, cbVars, rtVars, alertVars, concVars>>

\* track_error calls made before the handler is called
HandlerTrack(fp) ==
    /\ UNCHANGED auxVars
    /\ rt_pc = "idle"
    /\ Len(error_history) < MaxHandlerTracks
    /\ TrackErrorEffect(fp, now)
    /\ UNCHANGED <<now, cbVars, rtVars, alertVars, concVars, guardVars>>

(***************************************************************************)
(* Queries of the tracker: resolve_error, get_top_errors                   *)
(***************************************************************************)
UnknownId == 0                     \* an id no record has
ResolutionNotes == {"fixed"}
ResolveIds == {UnknownId, 1, 2}
TopLimits == {1, 10}
NoResolve == [calls |-> 0, id |-> UnknownId, notes |-> "None",
              returned |-> FALSE]

\* get_error_by_id: the positions of error_history that hold the record
HistoryIndex(hist, recs, id) ==
    {k \in 1..Len(hist) : recs[hist[k]].id = id}

\* resolve_error(error_id, resolution_notes)
ResolveError(id, notes) ==
    /\ resolve_result.calls < MaxResolves
    /\ IF HistoryIndex(error_history, records, id) # {}
       THEN /\ records' = [records EXCEPT ![id].resolved = TRUE,
                                          ![id].resolution_notes = notes]
            /\ resolve_result' = [calls |-> resolve_result.calls + 1, id |-> id,
                                  notes |-> notes, returned |-> TRUE]
       ELSE /\ resolve_result' = [calls |-> resolve_result.calls + 1, id |-> id,
                                  notes |-> notes, returned |-> FALSE]
            /\ UNCHANGED records
    /\ UNCHANGED <<now, max_errors, next_id, error_cache, error_counts,
                   error_history, alert_callback, callback_raises, emitted,
                   track_raised, track_times, last_add, top_result,
                   export_result, fpVars, statsVars, cbVars, rtVars, alertVars,
                   concVars, guardVars>>

\* i comes before j in sorted(items, key=count, reverse=True): the sort is
\* stable also when reversed, so equal counts keep dict order
TopBefore(cache, recs, i, j) ==
    \/ recs[cache[i]].count > recs[cache[j]].count
    \/ recs[cache[i]].count = recs[cache[j]].count /\ i < j

\* ErrorAggregator.get_top_errors(limit): the records, in order
TopErrors(cache, recs, limit) ==
    LET rank(i) == Cardinality({j \in 1..Len(cache) : TopBefore(cache, recs, j, i)})
        size == IF limit < Len(cache) THEN limit ELSE Len(cache)
    IN [r \in 1..size |->
           cache[CHOOSE i \in 1..Len(cache) : rank(i) = r - 1]]

GetTopErrors(limit) ==
    /\ top_result.calls < MaxTopCalls
    /\ top_result' = [calls |-> top_result.calls + 1, limit |-> limit,
                      errors |-> TopErrors(error_cache, records, limit)]
    /\ UNCHANGED <<now, storeVars, resolve_result, export_result, fpVars,
                   statsVars, cbVars, rtVars, alertVars, concVars, guardVars>>

\* track_error in the specification of the queries
QueryTrack(fp) ==
    /\ UNCHANGED auxVars
    /\ \/ Len(error_history) < MaxQueryTracks
       \/ Len(error_history) = HistoryMaxLen /\ error_history[1] = 1
    /\ fp <= Cardinality(UsedFps) + 1
    /\ TrackErrorEffect(fp, now)
    /\ UNCHANGED <<now, cbVars, rtVars, alertVars, concVars, guardVars>>

ExportFormats == {"json", "csv", "xml"}
NoExport == [calls |-> 0, format |-> "none", outcome |-> "none",
             written |-> FALSE, rows |-> <<>>, total_errors |-> 0,
             logged |-> FALSE]
    \* written: the output file was opened and written; rows: the CSV rows or
    \* the "errors" list of the JSON document; logged: the info line
    \* "Exported N errors to ..." was emitted

\* a record as a CSV data row or as asdict(error) (the message, exception
\* type, function and module are not modelled)
ExportRow(r) ==
    [id |-> r.id, timestamp |-> r.timestamp, severity |-> r.severity,
     category |-> r.category, count |-> r.count, resolved |-> r.resolved]

\* one row per element of self.error_history
ExportRows(hist, recs) == [k \in 1..Len(hist) |-> ExportRow(recs[hist[k]])]

\* export_errors(output_file, format); the file can be opened and written
ExportErrors(format) ==
    /\ export_result.calls < MaxExports
    /\ export_result' =
          CASE format = "json" ->
                 [calls |-> export_result.calls + 1, format |-> format,
                  outcome |-> "returned", written |-> TRUE,
                  rows |-> ExportRows(error_history, records),
                  total_errors |-> Len(error_history), logged |-> TRUE]
            [] format = "csv" ->
                 [calls |-> export_result.calls + 1, format |-> format,
                  outcome |-> "returned", written |-> TRUE,
                  rows |-> <<"header">> \o ExportRows(error_history, records),
                  total_errors |-> Len(error_history), logged |-> TRUE]
            [] OTHER ->
                 [calls |-> export_result.calls + 1, format |-> format,
                  outcome |-> "returned", written |-> FALSE,
                  rows |-> <<>>, total_errors |-> Len(error_history),
                  logged |-> TRUE]
    /\ UNCHANGED <<now, storeVars, resolve_result, top_result, fpVars,
                   statsVars, cbVars, rtVars, alertVars, concVars, guardVars>>

\* track_error in the specification of the export
ExportTrack(fp) ==
    /\ UNCHANGED auxVars
    /\ Len(error_history) < MaxExportTracks
    /\ fp <= Cardinality(UsedFps) + 1
    /\ TrackErrorEffect(fp, now)
    /\ UNCHANGED <<now, cbVars, rtVars, alertVars, concVars, guardVars>>

QueryInit ==
    /\ resolve_result = NoResolve
    /\ top_result = [calls |-> 0, limit |-> 0, errors |-> <<>>]
    /\ export_result = NoExport

\* the tracker after track_error was called once for signature 1 and then
\* HistoryMaxLen - 1 times for signature 2, all at time t: the history deque
\* is full
FullHistoryInit(t) ==
    /\ max_errors = 9
    /\ records = (1 :> NewErrorRecord(1, 1, t))
                   @@ (2 :> [NewErrorRecord(2, 2, t) EXCEPT
                                !.count = HistoryMaxLen - 1])
    /\ next_id = HistoryMaxLen + 1
    /\ error_cache = <<1, 2>>
    /\ error_counts = (1 :> 1) @@ (2 :> HistoryMaxLen - 1)
    /\ error_history = [k \in 1..HistoryMaxLen |-> IF k = 1 THEN 1 ELSE 2]
    /\ alert_callback = FALSE
    /\ callback_raises = FALSE
    /\ emitted = <<>>
    /\ track_raised = FALSE
    /\ track_times = [k \in 1..HistoryMaxLen |-> t]
    /\ last_add = [fingerprint |-> 2, candidate |-> HistoryMaxLen,
                   returned |-> 2, peak |-> 2, evicted |-> {}, time |-> t]

(***************************************************************************)
(* generate_fingerprint                                                    *)
(***************************************************************************)
MessagePrefix == 200               \* error_message[:200]
StackFrames == 3                   \* stack_lines[:3]

\* n copies of the character c
RECURSIVE Repeat(_, _)
Repeat(c, n) == IF n = 0 THEN <<>> ELSE <<c>> \o Repeat(c, n - 1)

\* Strings are sequences of characters (error messages) or of whole tokens.
\* Two messages that differ only after character 200, and a short one.
FpMessages ==
    {Repeat("a", MessagePrefix) \o <<"x">>,
     Repeat("a", MessagePrefix) \o <<"y">>,
     <<"b">>}
FpTypes == {"ValueError", "KeyError"}

\* A stack line: its leading blanks, its text, and whether the text contains
\* "customer_snapshot"
AppLine(k, indent) == [indent |-> indent, text |-> k, app |-> TRUE]
LibLine(k, indent) == [indent |-> indent, text |-> k, app |-> FALSE]
FpStacks ==
    {<<LibLine("l1", 2), AppLine("f1", 2), AppLine("f2", 2), AppLine("f3", 2),
       AppLine("f4", 2)>>,
     <<AppLine("f1", 0), LibLine("l2", 0), AppLine("f2", 4), AppLine("f3", 0),
       AppLine("f5", 0)>>,
     <<AppLine("f2", 2), AppLine("f1", 2)>>}

\* ErrorContext: the fields of the signature, and the others, which vary
\* together
FpCorrelations ==
    {[request_id |-> "None", session_id |-> "None", user_id |-> "None",
      additional_data |-> <<>>],
     [request_id |-> "r1", session_id |-> "s1", user_id |-> "u1",
      additional_data |-> <<"attempt", "1">>]}
FpPlaces ==
    {[function_name |-> "None", module_name |-> "None"],
     [function_name |-> "f", module_name |-> ""],
     [function_name |-> "f", module_name |-> "m"]}
FpContexts ==
    {[function_name |-> p.function_name, module_name |-> p.module_name,
      line_number |-> l, rest |-> c] :
        p \in FpPlaces, l \in {None, 7}, c \in FpCorrelations}
FpInputs ==
    [error_message : FpMessages, exception_type : FpTypes,
     stack_trace : FpStacks, context : FpContexts]

\* x or ""
OrEmpty(x) == IF x = "None" \/ x = "" THEN <<>> ELSE <<x>>
\* str(x) if x else ""
StrIf(x) == IF x = None \/ x = 0 THEN <<>> ELSE <<ToString(x)>>
\* s[:n]
Prefix(str, n) == SubSeq(str, 1, IF Len(str) < n THEN Len(str) ELSE n)

\* the stripped lines of the stack trace that contain "customer_snapshot"
RECURSIVE StackLines(_)
StackLines(stack) ==
    IF stack = <<>> THEN <<>>
    ELSE (IF Head(stack).app THEN <<<<Head(stack).text>>>> ELSE <<>>)
         \o StackLines(Tail(stack))

\* a signature that also carries the request id
SignaturePartsWithRequest(error_message, exception_type, context) ==
    << <<exception_type>>, Prefix(error_message, MessagePrefix),
       OrEmpty(context.function_name), OrEmpty(context.module_name),
       StrIf(context.line_number), OrEmpty(context.rest.request_id) >>

\* signature_parts before the stack lines are added
SignatureParts(error_message, exception_type, context) ==
    << <<exception_type>>, Prefix(error_message, MessagePrefix),
       OrEmpty(context.function_name), OrEmpty(context.module_name),
       StrIf(context.line_number) >>

\* "|".join(parts)
RECURSIVE Join(_)
Join(parts) ==
    IF parts = <<>> THEN <<>>
    ELSE IF Len(parts) = 1 THEN parts[1]
    ELSE parts[1] \o <<"|">> \o Join(Tail(parts))

\* hashlib.sha256(...).hexdigest(): a fixed function of the signature
\* string, taken to have no collisions
Sha256(signature) == <<"sha256", signature>>

\* ErrorAggregator.generate_fingerprint
GenerateFingerprint(error_message, exception_type, stack_trace, context) ==
    Sha256(Join(SignatureParts(error_message, exception_type, context)
                \o Prefix(StackLines(stack_trace), StackFrames)))

\* one call of generate_fingerprint, with the time and the number of
\* records of the tracker when it is made
FpCall(input) ==
    /\ Len(fpc) < MaxFpCalls
    /\ fpc' = Append(fpc,
                 [input |-> input, time |-> now, records |-> Len(error_cache),
                  result |-> GenerateFingerprint(input.error_message,
                                input.exception_type, input.stack_trace,
                                input.context)])
    /\ UNCHANGED <<now, storeVars, queryVars, statsVars, cbVars, rtVars,
                   alertVars, concVars, guardVars>>

\* track_error between the calls: the state of the tracker changes
FpTrack ==
    /\ UNCHANGED auxVars
    /\ next_id = 1
    /\ Len(fpc) = 1
    /\ TrackErrorEffect(1, now)
    /\ UNCHANGED <<now, cbVars, rtVars, alertVars, concVars, guardVars>>

FpInit == fpc = <<>>

(***************************************************************************)
(* Statistics                                                              *)
(***************************************************************************)
Hour == 3600                       \* timedelta(hours=1), in seconds
Day == 86400                       \* timedelta(days=1), in seconds
StatsInterval == 60                \* self.stats_interval
JoinTimeout == 5                   \* join(timeout=5)
TopStatsLimit == 10                \* get_top_errors(10)
StatsFps == {1, 2}
TickFields == {"total_errors", "error_rate", "errors_by_severity",
               "errors_by_category", "top_errors", "resolution_rate"}
StatsFields == TickFields \cup {"mean_time_to_resolution"}

RECURSIVE Gcd(_, _)
Gcd(a, b) == IF b = 0 THEN a ELSE Gcd(b, a % b)

\* the float n / d, d > 0, as a reduced fraction
Ratio(n, d) == <<n \div Gcd(n, d), d \div Gcd(n, d)>>

\* ErrorStats(...) as built by ErrorTracker.__init__
NewErrorStats ==
    [total_errors |-> 0, error_rate |-> Ratio(0, 1),
     errors_by_severity |-> <<>>, errors_by_category |-> <<>>,
     top_errors |-> <<>>, error_trends |-> <<>>,
     resolution_rate |-> Ratio(0, 1),
     mean_time_to_resolution |-> Ratio(0, 1)]

\* stats_epoch[f]: the tick that assigned field f last (0: __init__)
NoEpoch == [f \in StatsFields |-> 0]
NoRead == [reads |-> 0, stats |-> NewErrorStats, epoch |-> NoEpoch]
NoStop == [pc |-> "idle", calls |-> 0, thread |-> 0, called |-> 0,
           deadline |-> 0, returned |-> 0]

\* threading.Thread(target=self._update_stats_loop), started
NewLoop == [pc |-> "check", tick |-> 0, seen |-> 0, current_time |-> 0,
            recent |-> 0, daily |-> <<>>, wake |-> 0]

\* a loop that never looks at the flag
LoopContinuesAlways(enabled) == TRUE

\* while self.processing_enabled
LoopContinues(enabled) == enabled

\* sum of error.count over the entries whose field has the value key
RECURSIVE BucketSum(_, _, _, _)
BucketSum(entries, recs, field, key) ==
    IF entries = <<>> THEN 0
    ELSE (IF recs[Head(entries)][field] = key
             THEN recs[Head(entries)].count ELSE 0)
         + BucketSum(Tail(entries), recs, field, key)

\* dict(severity_counts) / dict(category_counts)
BucketCounts(entries, recs, field) ==
    [key \in {recs[entries[k]][field] : k \in DOMAIN entries} |->
        BucketSum(entries, recs, field, key)]

\* the entries of the history whose record was created after t
EntriesAfter(hist, recs, t) ==
    SelectSeq(hist, LAMBDA id : recs[id].timestamp > t)

\* one element of error_stats.top_errors (the message is not modelled)
TopEntry(r) ==
    [fingerprint |-> r.fingerprint, count |-> r.count, severity |-> r.severity,
     category |-> r.category, last_seen |-> r.last_seen]

\* resolved_errors
ResolvedEntries(hist, recs) == SelectSeq(hist, LAMBDA id : recs[id].resolved)

\* resolution_times: last_seen - first_seen of the resolved entries with
\* non-empty notes
ResolutionTimes(resolved, recs) ==
    LET noted == SelectSeq(resolved,
                     LAMBDA id : recs[id].resolution_notes \notin {"None", ""})
    IN [k \in 1..Len(noted) |->
           recs[noted[k]].last_seen - recs[noted[k]].first_seen]

RECURSIVE SumSeq(_)
SumSeq(q) == IF q = <<>> THEN 0 ELSE Head(q) + SumSeq(Tail(q))

\* the head of the loop: the while test and, when it passes, the first lines
\* of _update_statistics (current_time, the iteration over the history
\* begins)
LoopCheck(i) ==
    /\ i \in DOMAIN loops
    /\ loops[i].pc = "check"
    /\ IF LoopContinues(processing_enabled)
       THEN /\ tick_count < MaxTicks
            /\ tick_count' = tick_count + 1
            /\ loops' = [loops EXCEPT ![i].pc = "scan",
                                      ![i].tick = tick_count + 1,
                                      ![i].seen = Len(error_history),
                                      ![i].current_time = now]
       ELSE /\ loops' = [loops EXCEPT ![i].pc = "dead"]
            /\ UNCHANGED tick_count
    /\ UNCHANGED <<now, storeVars, queryVars, fpVars, error_stats, stats_epoch,
                   processing_enabled, stats_read, stopper, cbVars, rtVars,
                   alertVars, concVars, guardVars>>

\* recent_errors and daily_errors: the deque raises RuntimeError when it
\* was appended to during the iteration, and the loop's except clause takes
\* the thread back to the while test
LoopScan(i) ==
    /\ i \in DOMAIN loops
    /\ loops[i].pc = "scan"
    /\ IF Len(error_history) # loops[i].seen
       THEN loops' = [loops EXCEPT ![i].pc = "check"]
       ELSE loops' = [loops EXCEPT
                ![i].pc = "totals",
                ![i].recent = Len(EntriesAfter(error_history, records,
                                    loops[i].current_time - Hour)),
                ![i].daily = EntriesAfter(error_history, records,
                                    loops[i].current_time - Day)]
    /\ UNCHANGED <<now, storeVars, queryVars, fpVars, error_stats, stats_epoch,
                   processing_enabled, tick_count, stats_read, stopper, cbVars,
                   rtVars, alertVars, concVars, guardVars>>

\* the assignment of one or more fields of self.error_stats by tick k
Assigned(fields, k) ==
    [f \in StatsFields |-> IF f \in fields THEN k ELSE stats_epoch[f]]

\* total_errors and error_rate
LoopTotals(i) ==
    /\ i \in DOMAIN loops
    /\ loops[i].pc = "totals"
    /\ error_stats' = [error_stats EXCEPT
            !.total_errors = Len(error_history),
            !.error_rate = Ratio(loops[i].recent, Hour)]
    /\ stats_epoch' = Assigned({"total_errors", "error_rate"}, loops[i].tick)
    /\ loops' = [loops EXCEPT ![i].pc = "severity"]
    /\ UNCHANGED <<now, storeVars, queryVars, fpVars, processing_enabled,
                   tick_count, stats_read, stopper, cbVars, rtVars, alertVars,
                   concVars, guardVars>>

\* errors_by_severity
LoopSeverity(i) ==
    /\ i \in DOMAIN loops
    /\ loops[i].pc = "severity"
    /\ error_stats' = [error_stats EXCEPT
            !.errors_by_severity =
                BucketCounts(loops[i].daily, records, "severity")]
    /\ stats_epoch' = Assigned({"errors_by_severity"}, loops[i].tick)
    /\ loops' = [loops EXCEPT ![i].pc = "category"]
    /\ UNCHANGED <<now, storeVars, queryVars, fpVars, processing_enabled,
                   tick_count, stats_read, stopper, cbVars, rtVars, alertVars,
                   concVars, guardVars>>

\* errors_by_category
LoopCategory(i) ==
    /\ i \in DOMAIN loops
    /\ loops[i].pc = "category"
    /\ error_stats' = [error_stats EXCEPT
            !.errors_by_category =
                BucketCounts(loops[i].daily, records, "category")]
    /\ stats_epoch' = Assigned({"errors_by_category"}, loops[i].tick)
    /\ loops' = [loops EXCEPT ![i].pc = "top"]
    /\ UNCHANGED <<now, storeVars, queryVars, fpVars, processing_enabled,
                   tick_count, stats_read, stopper, cbVars, rtVars, alertVars,
                   concVars, guardVars>>

\* top_errors
LoopTop(i) ==
    /\ i \in DOMAIN loops
    /\ loops[i].pc = "top"
    /\ \E top \in {TopErrors(error_cache, records, TopStatsLimit)} :
          error_stats' = [error_stats EXCEPT
              !.top_errors = [k \in 1..Len(top) |-> TopEntry(records[top[k]])]]
    /\ stats_epoch' = Assigned({"top_errors"}, loops[i].tick)
    /\ loops' = [loops EXCEPT ![i].pc = "resolution"]
    /\ UNCHANGED <<now, storeVars, queryVars, fpVars, processing_enabled,
                   tick_count, stats_read, stopper, cbVars, rtVars, alertVars,
                   concVars, guardVars>>

\* resolution_rate and mean_time_to_resolution; _update_statistics returns
\* and the loop calls time.sleep(self.stats_interval)
LoopResolution(i) ==
    /\ i \in DOMAIN loops
    /\ loops[i].pc = "resolution"
    /\ \E resolved \in {ResolvedEntries(error_history, records)} :
        \E times \in {ResolutionTimes(resolved, records)} :
          IF times # <<>>
          THEN /\ error_stats' = [error_stats EXCEPT
                      !.resolution_rate =
                          Ratio(Len(resolved),
                                IF Len(error_history) > 1
                                   THEN Len(error_history) ELSE 1),
                      !.mean_time_to_resolution =
                          Ratio(SumSeq(times), Len(times))]
               /\ stats_epoch' = Assigned({"resolution_rate",
                                           "mean_time_to_resolution"},
                                          loops[i].tick)
          ELSE /\ error_stats' = [error_stats EXCEPT
                      !.resolution_rate =
                          Ratio(Len(resolved),
                                IF Len(error_history) > 1
                                   THEN Len(error_history) ELSE 1)]
               /\ stats_epoch' = Assigned({"resolution_rate"}, loops[i].tick)
    /\ loops' = [loops EXCEPT ![i].pc = "sleep",
                              ![i].wake = now + StatsInterval]
    /\ UNCHANGED <<now, storeVars, queryVars, fpVars, processing_enabled,
                   tick_count, stats_read, stopper, cbVars, rtVars, alertVars,
                   concVars, guardVars>>

\* time.sleep returns
LoopWake(i) ==
    /\ i \in DOMAIN loops
    /\ loops[i].pc = "sleep"
    /\ now >= loops[i].wake
    /\ loops' = [loops EXCEPT ![i].pc = "check"]
    /\ UNCHANGED <<now, storeVars, queryVars, fpVars, error_stats, stats_epoch,
                   processing_enabled, tick_count, stats_read, stopper, cbVars,
                   rtVars, alertVars, concVars, guardVars>>

\* one step of the thread that runs _update_stats_loop
LoopStep(i) ==
    \/ LoopCheck(i)
    \/ LoopScan(i)
    \/ LoopTotals(i)
    \/ LoopSeverity(i)
    \/ LoopCategory(i)
    \/ LoopTop(i)
    \/ LoopResolution(i)
    \/ LoopWake(i)

\* start_background_processing: self.stats_thread is the last thread made
StartBackgroundProcessing ==
    /\ Len(loops) < MaxStarts
    /\ processing_enabled' = TRUE
    /\ loops' = Append(loops, NewLoop)
    /\ UNCHANGED <<now, storeVars, queryVars, fpVars, error_stats, stats_epoch,
                   tick_count, stats_read, stopper, cbVars, rtVars, alertVars,
                   concVars, guardVars>>

\* stop_background_processing up to the join
StopBackgroundProcessing ==
    /\ stopper.pc = "idle"
    /\ stopper.calls < MaxStops
    /\ processing_enabled' = FALSE
    /\ stopper' = [pc |-> IF loops # <<>> THEN "joining" ELSE "idle",
                   calls |-> stopper.calls + 1,
                   thread |-> Len(loops),
                   called |-> now,
                   deadline |-> now + JoinTimeout,
                   returned |-> now]
    /\ UNCHANGED <<now, storeVars, queryVars, fpVars, error_stats, stats_epoch,
                   loops, tick_count, stats_read, cbVars, rtVars, alertVars,
                   concVars, guardVars>>

\* join(timeout=5) returns: the thread has ended or the time is up
StopReturn ==
    /\ stopper.pc = "joining"
    /\ loops[stopper.thread].pc = "dead" \/ now >= stopper.deadline
    /\ stopper' = [stopper EXCEPT !.pc = "idle", !.returned = now]
    /\ UNCHANGED <<now, storeVars, queryVars, fpVars, error_stats, stats_epoch,
                   processing_enabled, loops, tick_count, stats_read, cbVars,
                   rtVars, alertVars, concVars, guardVars>>

\* the times somebody is waiting for: the ends of the sleeps and of the join
Deadlines ==
    {loops[i].wake : i \in {j \in DOMAIN loops : loops[j].pc = "sleep"}}
    \cup (IF stopper.pc = "joining" THEN {stopper.deadline} ELSE {})

\* time passes until the next moment somebody is waiting for; a whole day
\* passes only while nobody waits
StatsAdvance ==
    /\ IF Deadlines = {}
       THEN now < Day /\ now' = now + Day
       ELSE /\ now' \in Deadlines
            /\ now' > now
            /\ \A t \in Deadlines : now' <= t
    /\ UNCHANGED <<storeVars, auxVars, cbVars, rtVars, alertVars, concVars,
                   guardVars>>

\* get_error_stats: the caller reads the fields of the object it is given
GetErrorStats ==
    /\ stats_read.reads < MaxReads
    /\ stats_read' = [reads |-> stats_read.reads + 1, stats |-> error_stats,
                      epoch |-> stats_epoch]
    /\ UNCHANGED <<now, storeVars, queryVars, fpVars, error_stats, stats_epoch,
                   processing_enabled, loops, tick_count, stopper, cbVars,
                   rtVars, alertVars, concVars, guardVars>>

\* track_error next to the statistics loop
StatsTrack(fp) ==
    /\ UNCHANGED auxVars
    /\ Len(error_history) < MaxStatsTracks
    /\ fp <= Cardinality(UsedFps) + 1
    /\ TrackErrorEffect(fp, now)
    /\ UNCHANGED <<now, cbVars, rtVars, alertVars, concVars, guardVars>>

\* track_error next to resolve_error and the statistics loop
ResolutionTrack(fp) ==
    /\ UNCHANGED auxVars
    /\ Len(error_history) < MaxResolutionTracks
    /\ fp <= Cardinality(UsedFps) + 1
    /\ TrackErrorEffect(fp, now)
    /\ UNCHANGED <<now, cbVars, rtVars, alertVars, concVars, guardVars>>

\* the tracker after track_error was called once for each of the
\* signatures 1..FilledRecords at time t: the store holds max_errors records
FilledRecords == 9
FilledStoreInit(t) ==
    /\ max_errors = FilledRecords
    /\ records = [id \in 1..FilledRecords |-> NewErrorRecord(id, id, t)]
    /\ next_id = FilledRecords + 1
    /\ error_cache = [k \in 1..FilledRecords |-> k]
    /\ error_counts = [fp \in 1..FilledRecords |-> 1]
    /\ error_history = [k \in 1..FilledRecords |-> k]
    /\ alert_callback = FALSE
    /\ callback_raises = FALSE
    /\ emitted = <<>>
    /\ track_raised = FALSE
    /\ track_times = [k \in 1..FilledRecords |-> t]
    /\ last_add = [fingerprint |-> FilledRecords, candidate |-> FilledRecords,
                   returned |-> FilledRecords, peak |-> FilledRecords,
                   evicted |-> {}, time |-> t]

\* a signature the store holds, and one it has not seen
FrameFps == {2, FilledRecords + 1}

\* track_error on the filled store
FrameTrack(fp) ==
    /\ UNCHANGED auxVars
    /\ next_id <= FilledRecords + MaxFrameTracks
    /\ TrackErrorEffect(fp, now)
    /\ UNCHANGED <<now, cbVars, rtVars, alertVars, concVars, guardVars>>

\* resolution notes a caller passes: a text, or the empty string
NotesChoices == {"fixed", ""}

StatsInit ==
    /\ error_stats = NewErrorStats
    /\ stats_epoch = NoEpoch
    /\ processing_enabled = FALSE
    /\ loops = <<>>
    /\ tick_count = 0
    /\ stats_read = NoRead
    /\ stopper = NoStop

AuxInit ==
    /\ QueryInit
    /\ FpInit
    /\ StatsInit

(***************************************************************************)
(* Specifications, one per component.  A component that a specification    *)
(* does not exercise stays in its state after construction.                *)
(***************************************************************************)
InitStore ==
    /\ now = 0
    /\ \E max \in MaxErrorsChoices : StoreInit(max)
    /\ CbInit(1, 1, "Exception")
    /\ RtInit(1, 0, 1, "none")
    /\ AlertInit
    /\ ConcInit
    /\ GuardInit
    /\ AuxInit

NextStore ==
    \/ \E fp \in Fingerprints : TrackError(fp)
    \/ SetAlertCallback(FALSE)
    \/ Tick

SpecStore == InitStore /\ [][NextStore]_vars

InitBreaker ==
    /\ now = 0
    /\ StoreInit(9)
    /\ \E thr \in 1..MaxThreshold, timeout \in 1..MaxTimeout :
          \E expected \in ExpectedChoices : CbInit(thr, timeout, expected)
    /\ RtInit(1, 0, 1, "none")
    /\ AlertInit
    /\ ConcInit
    /\ GuardInit
    /\ AuxInit

NextBreaker ==
    \/ CBCall
    \/ \E outcome \in CbOutcomes : CBReturn(outcome)
    \/ CBTick

SpecBreaker == InitBreaker /\ [][NextBreaker]_vars

InitRetry ==
    /\ now = 0
    /\ StoreInit(9)
    /\ CbInit(1, 1, "Exception")
    /\ \E n \in 0..MaxAttempts, d \in RtDelays, b \in RtBackoffs, cb \in RtCallbacks :
          RtInit(n, d, b, cb)
    /\ AlertInit
    /\ ConcInit
    /\ GuardInit
    /\ AuxInit

NextRetry ==
    \/ RetryCall
    \/ \E outcome \in RtOutcomes : RetryAttempt(outcome)

SpecRetry == InitRetry /\ [][NextRetry]_vars

InitAlert ==
    /\ now = 0
    /\ StoreInit(9)
    /\ CbInit(1, 1, "Exception")
    /\ RtInit(1, 0, 1, "none")
    /\ AlertInit
    /\ ConcInit
    /\ GuardInit
    /\ AuxInit

NextAlert ==
    \/ \E name \in AlertNames, level \in AlertLevels : ShouldSendAlert(name, level)
    \/ \E d \in AlertTickSteps : AlertTick(d)

SpecAlert == InitAlert /\ [][NextAlert]_vars

InitSpike ==
    /\ now = 0
    /\ StoreInit(9)
    /\ CbInit(1, 1, "Exception")
    /\ RtInit(1, 0, 1, "none")
    /\ AlertInit
    /\ ConcInit
    /\ GuardInit
    /\ AuxInit

NextSpike ==
    \/ \E fp \in SpikeFps : SpikeTrack(fp)
    \/ \E raises \in BOOLEAN : SetAlertCallback(raises)
    \/ \E t \in SpikeClock : SpikeTick(t)

SpecSpike == InitSpike /\ [][NextSpike]_vars

InitConcStore ==
    /\ now = 0
    /\ StoreInit(9)
    /\ CbInit(1, 1, "Exception")
    /\ RtInit(1, 0, 1, "none")
    /\ AlertInit
    /\ ConcInit
    /\ GuardInit
    /\ AuxInit

NextConcStore ==
    \/ \E fp \in ConcFps : TrackErrorFirst(fp)
    \/ \E t \in ConcThreads, fp \in ConcFps : ThStart(t, fp)
    \/ \E t \in ConcThreads : ThCheck(t)
    \/ \E t \in ConcThreads : ThLoadCount(t)
    \/ \E t \in ConcThreads : ThStoreCount(t)
    \/ \E t \in ConcThreads : ThLoadCounts(t)
    \/ \E t \in ConcThreads : ThStoreCounts(t)
    \/ \E t \in ConcThreads : ThInsert(t)
    \/ \E t \in ConcThreads : ThSetCounts(t)
    \/ \E t \in ConcThreads : ThFinish(t)

SpecConcStore == InitConcStore /\ [][NextConcStore]_vars

InitGuard ==
    /\ now = 0
    /\ StoreInit(9)
    /\ CbInit(1, 1, "Exception")
    /\ RtInit(1, 0, 1, "none")
    /\ AlertInit
    /\ ConcInit
    /\ GuardInit
    /\ AuxInit

NextGuard ==
    \/ \E raises \in BOOLEAN : SetAlertCallback(raises)
    \/ \E outcome \in GuardOutcomes, fp \in GuardFps : FallbackCall(outcome, fp)
    \/ \E reraise, track_errors, raised \in BOOLEAN :
          \E fp \in GuardFps : BoundaryExit(reraise, track_errors, raised, fp)
    \/ \E n \in 0..MaxRetryCount : SafeExecuteCall(n)
    \/ \E outcome \in GuardOutcomes, fp \in GuardFps :
          SafeExecuteAttempt(outcome, fp)

SpecGuard == InitGuard /\ [][NextGuard]_vars

InitConcBreaker ==
    /\ now = 0
    /\ StoreInit(9)
    /\ \E thr \in 1..MaxThreshold, timeout \in 1..MaxTimeout :
          CbInit(thr, timeout, "Exception")
    /\ RtInit(1, 0, 1, "none")
    /\ AlertInit
    /\ ConcInit
    /\ GuardInit
    /\ AuxInit

NextConcBreaker ==
    \/ \E t \in ConcThreads : CthEnter(t)
    \/ \E t \in ConcThreads : CthLoad(t)
    \/ \E t \in ConcThreads : CthStore(t)
    \/ \E t \in ConcThreads : CthTrip(t)
    \/ \E t \in ConcThreads : CthTrack(t)

SpecConcBreaker == InitConcBreaker /\ [][NextConcBreaker]_vars

InitFingerprint ==
    /\ now = 0
    /\ StoreInit(9)
    /\ CbInit(1, 1, "Exception")
    /\ RtInit(1, 0, 1, "none")
    /\ AlertInit
    /\ ConcInit
    /\ GuardInit
    /\ AuxInit

NextFingerprint ==
    \/ \E input \in FpInputs : FpCall(input)
    \/ FpTrack
    \/ Tick

SpecFingerprint == InitFingerprint /\ [][NextFingerprint]_vars

InitStats ==
    /\ now = 0
    /\ StoreInit(9)
    /\ CbInit(1, 1, "Exception")
    /\ RtInit(1, 0, 1, "none")
    /\ AlertInit
    /\ ConcInit
    /\ GuardInit
    /\ AuxInit

NextLoop ==
    \/ StartBackgroundProcessing
    \/ StopBackgroundProcessing
    \/ StopReturn
    \/ \E i \in 1..MaxStarts : LoopStep(i)
    \/ StatsAdvance

\* one statistics loop, with track_error calls and a reader next to it
NextStats ==
    \/ Len(loops) < MaxStatsStarts /\ StartBackgroundProcessing
    \/ StopBackgroundProcessing
    \/ StopReturn
    \/ LoopStep(1)
    \/ StatsAdvance
    \/ \E fp \in StatsFps : StatsTrack(fp)
    \/ GetErrorStats

SpecStats == InitStats /\ [][NextStats]_vars

\* The scheduler runs every started thread, time passes, and a join whose
\* thread has ended or whose time is up returns.
SpecLoop ==
    /\ InitStats
    /\ [][NextLoop]_vars
    /\ \A i \in 1..MaxStarts : WF_vars(LoopStep(i))
    /\ WF_vars(StatsAdvance)
    /\ WF_vars(StopReturn)

InitResolution ==
    /\ now = 0
    /\ StoreInit(9)
    /\ CbInit(1, 1, "Exception")
    /\ RtInit(1, 0, 1, "none")
    /\ AlertInit
    /\ ConcInit
    /\ GuardInit
    /\ AuxInit

\* one statistics loop next to track_error and resolve_error calls
NextResolution ==
    \/ Len(loops) < MaxStatsStarts /\ StartBackgroundProcessing
    \/ LoopStep(1)
    \/ StatsAdvance
    \/ \E fp \in StatsFps : ResolutionTrack(fp)
    \/ \E id \in ResolveIds \ {UnknownId}, notes \in NotesChoices :
          ResolveError(id, notes)

SpecResolution == InitResolution /\ [][NextResolution]_vars

InitFrame ==
    /\ now = 0
    /\ FilledStoreInit(0)
    /\ CbInit(1, 1, "Exception")
    /\ RtInit(1, 0, 1, "none")
    /\ AlertInit
    /\ ConcInit
    /\ GuardInit
    /\ AuxInit

\* everything that touches the records: tracking with evictions, resolving,
\* the export and the first tick of a statistics loop
NextFrame ==
    \/ \E fp \in FrameFps : FrameTrack(fp)
    \/ \E notes \in NotesChoices : ResolveError(2, notes)
    \/ \E format \in ExportFormats : ExportErrors(format)
    \/ Len(loops) < MaxStatsStarts /\ StartBackgroundProcessing
    \/ LoopCheck(1)
    \/ LoopScan(1)
    \/ LoopTotals(1)
    \/ LoopSeverity(1)
    \/ LoopCategory(1)
    \/ LoopTop(1)
    \/ LoopResolution(1)

SpecFrame == InitFrame /\ [][NextFrame]_vars

InitQuery ==
    /\ \/ now = 0 /\ StoreInit(9)
       \/ now = 1 /\ FullHistoryInit(1)
    /\ CbInit(1, 1, "Exception")
    /\ RtInit(1, 0, 1, "none")
    /\ AlertInit
    /\ ConcInit
    /\ GuardInit
    /\ AuxInit

NextQuery ==
    \/ \E fp \in Fingerprints : QueryTrack(fp)
    \/ Tick
    \/ \E id \in ResolveIds, notes \in ResolutionNotes :
          ResolveError(id, notes)
    \/ \E limit \in TopLimits : GetTopErrors(limit)

SpecQuery == InitQuery /\ [][NextQuery]_vars

InitExport ==
    /\ now = 0
    /\ StoreInit(9)
    /\ CbInit(1, 1, "Exception")
    /\ RtInit(1, 0, 1, "none")
    /\ AlertInit
    /\ ConcInit
    /\ GuardInit
    /\ AuxInit

NextExport ==
    \/ \E fp \in Fingerprints : ExportTrack(fp)
    \/ Tick
    \/ \E id \in ResolveIds, notes \in ResolutionNotes :
          ResolveError(id, notes)
    \/ \E format \in ExportFormats : ExportErrors(format)

SpecExport == InitExport /\ [][NextExport]_vars

(***************************************************************************)
(* Observations used by the claims                                         *)
(***************************************************************************)
\* occurrences tracked so far with fingerprint fp
Occurrences(fp) ==
    Cardinality({k \in 1..Len(error_history) :
                    records[error_history[k]].fingerprint = fp})

\* occurrences tracked so far that returned the record id
OccurrencesOf(id) ==
    Cardinality({k \in 1..Len(error_history) : error_history[k] = id})

OneRecordPerFingerprint ==
    \A i, j \in 1..Len(error_cache) :
        records[error_cache[i]].fingerprint = records[error_cache[j]].fingerprint
            => i = j

\* failures of a tripped kind since the last success, from the outcomes of
\* the wrapped function
ConsecutiveFailures(log) ==
    LET F[i \in 0..Len(log)] ==
            IF i = 0 THEN 0
            ELSE IF log[i] = "ok" THEN 0
            ELSE IF log[i] = "fail" THEN F[i - 1] + 1
            ELSE F[i - 1]
    IN F[Len(log)]

Front(s) == SubSeq(s, 1, Len(s) - 1)

\* b to the power e
Pow(b, e) ==
    LET P[i \in 0..e] == IF i = 0 THEN 1 ELSE b * P[i - 1]
    IN P[e]

\* this step is a complete track_error call
TrackStep == next_id' = next_id + 1

\* the alerts of the given name among those handed to the callback
AlertsNamed(alerts, name) == {i \in 1..Len(alerts) : alerts[i].name = name}

\* this step is the start of a call through the breaker
CbCallStep == cb_calls' = cb_calls + 1

\* this step is the end of the wrapped function with the given outcome
CbReturnStep(outcome) == cb_log' = Append(cb_log, outcome)

(***************************************************************************)
(* Claims                                                                  *)
(***************************************************************************)

\* C1: when every track_error call so far carried the same fingerprint and
\* there were N >= 1 of them, the store holds exactly one record, that record
\* has count = N, and no second record object was ever made canonical.
C1_SameErrorOneRecord ==
    (/\ error_history # <<>>
     /\ \A k \in 1..Len(error_history) :
           records[error_history[k]].fingerprint
               = records[error_history[1]].fingerprint)
    => /\ Len(error_cache) = 1
       /\ Cardinality(DOMAIN records) = 1
       /\ records[error_cache[1]].count = Len(error_history)
       /\ error_counts[records[error_cache[1]].fingerprint] = Len(error_history)

C1_Witness ==
    /\ Len(error_history) = MaxSame
    /\ Len(error_cache) = 1
    /\ records[error_cache[1]].count = MaxSame

\* C2 as claimed: every record of the store has a count equal to the number
\* of all occurrences tracked so far with its fingerprint, evictions
\* included, and no fingerprint has two records.
C2_CountEqualsAllOccurrences ==
    /\ OneRecordPerFingerprint
    /\ \A i \in 1..Len(error_cache) :
          records[error_cache[i]].count
              = Occurrences(records[error_cache[i]].fingerprint)

\* C2 as amended: every record of the store has a count equal to the number
\* of occurrences tracked with its fingerprint since that record was
\* inserted (what was tracked before an eviction of the fingerprint is
\* forgotten), the counts table agrees, and no fingerprint has two records.
C2_CountSinceInsertion ==
    /\ OneRecordPerFingerprint
    /\ DOMAIN error_counts = CachedFps(error_cache, records)
    /\ \A i \in 1..Len(error_cache) :
          /\ records[error_cache[i]].count = OccurrencesOf(error_cache[i])
          /\ error_counts[records[error_cache[i]].fingerprint]
                = OccurrencesOf(error_cache[i])

\* an evicted fingerprint has been tracked again: the store holds its new
\* record, the history still refers to the old one
C2_Witness ==
    \E i \in 1..Len(error_cache) :
       \E k \in 1..Len(error_history) :
          /\ error_history[k] # error_cache[i]
          /\ records[error_history[k]].fingerprint
                = records[error_cache[i]].fingerprint
          /\ OccurrencesOf(error_cache[i]) = 1

\* C3: a step taken in CLOSED ends in OPEN exactly when it brings the number
\* of consecutive tripped failures to failure_threshold, otherwise the
\* breaker stays CLOSED; failure_count is that number, so a success resets
\* it to 0.
C3_OpensAtThreshold ==
    [][ /\ cb_state = "closed" =>
              /\ cb_state' \in {"closed", "open"}
              /\ (cb_state' = "open")
                    <=> (ConsecutiveFailures(cb_log') = failure_threshold)
        /\ failure_count' = ConsecutiveFailures(cb_log')
        /\ CbReturnStep("ok") => failure_count' = 0 ]_vars

C3_Witness ==
    /\ cb_state = "open"
    /\ failure_threshold = 3
    /\ cb_log = <<"fail", "ok", "fail", "fail", "fail">>

\* C4: a call made while the breaker is OPEN and less than recovery_timeout
\* has passed since last_failure_time ends at once with the circuit-open
\* error, and the wrapped function is not executed.
C4_OpenFailsFast ==
    [][ (/\ cb_state = "open"
         /\ now - last_failure_time < recovery_timeout
         /\ CbCallStep)
        => /\ cb_result' = "circuit_open"
           /\ invocations' = invocations
           /\ cb_pc' = "idle"
           /\ cb_state' = "open" ]_vars

C4_Witness ==
    /\ cb_result = "circuit_open"
    /\ cb_state = "open"
    /\ now - last_failure_time < recovery_timeout
    /\ invocations = Len(cb_log)

\* C5: the breaker leaves OPEN only in a step that starts a call, made when
\* recovery_timeout has passed since last_failure_time, and that step puts
\* it in HALF_OPEN and executes the wrapped function; every call started in
\* OPEN once the timeout has passed does so.
C5_LazyHalfOpen ==
    [][ /\ (cb_state = "open" /\ cb_state' # "open")
              => /\ CbCallStep
                 /\ now - last_failure_time >= recovery_timeout
                 /\ cb_state' = "half-open"
        /\ (/\ cb_state = "open"
            /\ CbCallStep
            /\ now - last_failure_time >= recovery_timeout)
              => /\ cb_state' = "half-open"
                 /\ invocations' = invocations + 1
                 /\ cb_pc' = "running" ]_vars

C5_Witness ==
    /\ cb_state = "half-open"
    /\ cb_pc = "running"
    /\ cb_trial
    /\ now - last_failure_time = recovery_timeout

\* C6: when the trial call made in HALF_OPEN returns, the breaker is CLOSED
\* with failure_count = 0, and a call started in CLOSED executes the wrapped
\* function.
C6_TrialSuccessCloses ==
    [][ /\ (cb_state = "half-open" /\ CbReturnStep("ok"))
              => /\ cb_state' = "closed"
                 /\ failure_count' = 0
        /\ (cb_state = "closed" /\ CbCallStep)
              => /\ invocations' = invocations + 1
                 /\ cb_pc' = "running"
                 /\ cb_state' = "closed" ]_vars

\* a call is running in CLOSED after a trial call that succeeded
C6_Witness ==
    /\ cb_state = "closed"
    /\ cb_pc = "running"
    /\ failure_count = 0
    /\ Len(cb_log) >= 2
    /\ cb_log[Len(cb_log)] = "ok"
    /\ ConsecutiveFailures(Front(cb_log)) >= failure_threshold

\* C7: when the trial call made in HALF_OPEN fails (raises an
\* expected_exception, which is what reaches _on_failure), the breaker is
\* OPEN afterwards and last_failure_time is the time of that failure; a call
\* started while OPEN less than recovery_timeout after that time is refused.
C7_TrialFailureReopens ==
    [][ /\ (cb_state = "half-open" /\ CbReturnStep("fail"))
              => /\ cb_state' = "open"
                 /\ last_failure_time' = now
                 /\ cb_pc' = "idle"
        /\ (/\ cb_state = "open"
            /\ CbCallStep
            /\ now < last_failure_time + recovery_timeout)
              => /\ cb_result' = "circuit_open"
                 /\ invocations' = invocations ]_vars

\* a call was refused after a trial call that failed at a later time than
\* the failure that opened the circuit
C7_Witness ==
    /\ cb_state = "open"
    /\ cb_result = "circuit_open"
    /\ cb_log = <<"fail", "fail">>
    /\ failure_threshold = 1
    /\ last_failure_time >= recovery_timeout
    /\ now < last_failure_time + recovery_timeout
    /\ now > last_failure_time

\* C8: a finished call of a function wrapped by with_retry with
\* max_attempts = n >= 1, none of whose executions raised a non-retryable
\* exception, executed the function k times and returned the k-th result
\* when the k-th execution was the first to succeed (k <= n), and executed
\* it n times and raised the n-th failure when all failed.
C8_RetryExecutions ==
    (/\ rt_pc = "done"
     /\ rt_max_attempts >= 1
     /\ \A i \in 1..Len(rt_outcomes) : rt_outcomes[i] # "other")
    => IF \E i \in 1..Len(rt_outcomes) : rt_outcomes[i] = "ok"
       THEN /\ Len(rt_outcomes) <= rt_max_attempts
            /\ \A i \in 1..(Len(rt_outcomes) - 1) : rt_outcomes[i] = "retryable"
            /\ rt_outcomes[Len(rt_outcomes)] = "ok"
            /\ rt_result = [kind |-> "returned", attempt |-> Len(rt_outcomes)]
       ELSE /\ Len(rt_outcomes) = rt_max_attempts
            /\ rt_result = [kind |-> "raised", attempt |-> rt_max_attempts]

C8_Witness ==
    /\ rt_pc = "done"
    /\ rt_max_attempts = 3
    /\ rt_outcomes = <<"retryable", "retryable", "retryable">>
    /\ rt_result = [kind |-> "raised", attempt |-> 3]

\* C9: the first should_send_alert call for a cache key returns True; a call
\* made less than aggregation_window after a call with the same
\* (name, level) that returned True returns False, adds one to the count of
\* the existing cache entry, leaves its last_sent as it was and touches no
\* other entry.
C9_SecondIsSuppressed ==
    [][ \A name \in AlertNames, level \in AlertLevels :
          \A sent \in BOOLEAN :
           /\ (/\ alert_log' = Append(alert_log, [name |-> name, level |-> level,
                                                  time |-> now, sent |-> sent])
               /\ \A i \in 1..Len(alert_log) :
                     CacheKey(alert_log[i].name, alert_log[i].level)
                         # CacheKey(name, level))
              => /\ sent
                 /\ alert_cache'[CacheKey(name, level)].count = 1
                 /\ alert_cache'[CacheKey(name, level)].last_sent = now
           /\
            (/\ alert_log' = Append(alert_log, [name |-> name, level |-> level,
                                                time |-> now, sent |-> sent])
             /\ \E i \in 1..Len(alert_log) :
                   /\ alert_log[i].name = name
                   /\ alert_log[i].level = level
                   /\ alert_log[i].sent
                   /\ now - alert_log[i].time < AggregationWindow)
            => /\ ~sent
               /\ CacheKey(name, level) \in DOMAIN alert_cache
               /\ DOMAIN alert_cache' = DOMAIN alert_cache
               /\ alert_cache'[CacheKey(name, level)].count
                     = alert_cache[CacheKey(name, level)].count + 1
               /\ alert_cache'[CacheKey(name, level)].last_sent
                     = alert_cache[CacheKey(name, level)].last_sent
               /\ \A k \in DOMAIN alert_cache :
                     k # CacheKey(name, level) => alert_cache'[k] = alert_cache[k]
      ]_vars

\* one (name, level) was sent and then suppressed inside the window
C9_Witness ==
    \E i, j \in 1..Len(alert_log) :
        /\ i < j
        /\ alert_log[i].name = alert_log[j].name
        /\ alert_log[i].level = alert_log[j].level
        /\ alert_log[i].sent
        /\ ~alert_log[j].sent
        /\ alert_log[j].time - alert_log[i].time < AggregationWindow
        /\ alert_log[j].time > alert_log[i].time
        /\ alert_cache[CacheKey(alert_log[j].name, alert_log[j].level)].count = 2

\* C10 as claimed: the store never holds more than max_errors + 1 records,
\* and holds at most max_errors once the insertion has returned.
C10_StoreBounded ==
    /\ last_add.peak <= max_errors + 1
    /\ Len(error_cache) <= max_errors

\* C11: records leave the store only in an add_error call that inserts a new
\* fingerprint and thereby makes the store larger than max_errors; such a
\* call removes exactly the tenth (rounded down) of the records it found
\* after the insertion, and every removed record has last_seen <= the
\* last_seen of every record that stays.
C11_EvictsOldestTenth ==
    [][ /\ (IdsIn(error_cache) \ IdsIn(error_cache') # {})
              => /\ TrackStep
                 /\ last_add'.returned = last_add'.candidate
                 /\ last_add'.peak = Len(error_cache) + 1
                 /\ last_add'.peak > max_errors
        /\ TrackStep
              => /\ last_add'.evicted = IdsIn(error_cache) \ IdsIn(error_cache')
                 /\ \A e \in last_add'.evicted :
                       \A i \in 1..Len(error_cache') :
                          records'[e].last_seen
                              <= records'[error_cache'[i]].last_seen
        /\ (/\ TrackStep
            /\ last_add'.returned = last_add'.candidate
            /\ last_add'.peak > max_errors)
              => /\ 10 * Cardinality(last_add'.evicted) <= last_add'.peak
                 /\ last_add'.peak < 10 * (Cardinality(last_add'.evicted) + 1)
      ]_vars

\* an eviction removed a record that was inserted after a record that stays:
\* the older insertion had been seen again in the meantime
C11_Witness ==
    /\ last_add.evicted # {}
    /\ \E e \in last_add.evicted :
          \E i \in 1..Len(error_cache) :
             /\ error_cache[i] < e
             /\ records[error_cache[i]].last_seen > records[e].last_seen

\* C12: add_error called with a candidate whose fingerprint is in the store
\* returns the canonical record of the store, the object the insertion of
\* that fingerprint returned, and not the candidate; the store keeps the
\* canonical id, and it is the canonical record that track_error appends to
\* the history.
C12_ReturnsCanonical ==
    [][ \A i \in 1..Len(error_cache) :
          (/\ TrackStep
           /\ last_add'.fingerprint = records[error_cache[i]].fingerprint)
          => /\ last_add'.returned = error_cache[i]
             /\ last_add'.returned # last_add'.candidate
             /\ records'[last_add'.returned].id = error_cache[i]
             /\ error_cache' = error_cache
             /\ last_add'.candidate \notin DOMAIN records'
             /\ error_history' = Append(error_history, error_cache[i])
      ]_vars

\* the third call with one fingerprint returned the record of the first
C12_Witness ==
    /\ Len(error_history) = 3
    /\ last_add.candidate = 3
    /\ last_add.returned = 1
    /\ error_cache = <<1>>
    /\ error_history = <<1, 1, 1>>

\* C16 as claimed: the callback sees a critical_error alert only after
\* (name, level) de-duplication, so a track_error call for a CRITICAL or
\* FATAL record made less than the aggregation window after a call that
\* handed a critical_error alert to the callback hands it none.
C16_CallbackAfterDedup ==
    [][ (/\ TrackStep
         /\ alert_callback
         /\ AlertsNamed(emitted, "critical_error") # {}
         /\ now - last_add.time < AggregationWindow
         /\ records'[last_add'.returned].severity \in {"critical", "fatal"})
        => AlertsNamed(emitted', "critical_error") = {} ]_vars

\* C17: with a callback installed, a track_error call hands the callback a
\* critical_error alert of level CRITICAL exactly when the record it
\* returns has severity CRITICAL or FATAL, whether or not the spike rule
\* fires for the same call.
C17_CriticalRule ==
    [][ (TrackStep /\ alert_callback)
        => /\ (AlertsNamed(emitted', "critical_error") # {})
                 <=> (records'[last_add'.returned].severity
                         \in {"critical", "fatal"})
           /\ \A i \in AlertsNamed(emitted', "critical_error") :
                 emitted'[i].level = "CRITICAL" ]_vars

\* one call for a CRITICAL record was handed both alerts
C17_Witness ==
    /\ alert_callback
    /\ Len(emitted) = 2
    /\ emitted[1].name = "critical_error"
    /\ emitted[2].name = "error_spike"
    /\ records[last_add.returned].severity = "critical"

\* C18 as claimed: with a callback installed (one that returns), a
\* track_error call hands the callback an error_spike alert of level WARNING
\* exactly when more than 20 of the track_error calls made so far, this one
\* included, were made within the trailing 10 minutes.
C18_SpikeCountsOccurrences ==
    [][ (TrackStep /\ alert_callback /\ ~callback_raises)
        => ((\E i \in AlertsNamed(emitted', "error_spike") :
                 emitted'[i].level = "WARNING")
            <=> (Cardinality({k \in 1..Len(track_times') :
                                 track_times'[k] > now - SpikeWindow})
                    > SpikeThreshold)) ]_vars

\* C13 as claimed: when two threads have run track_error with the same
\* fingerprint, in any interleaving, the store holds exactly one record for
\* that fingerprint, the count of that record is the number of track_error
\* calls made with the fingerprint (it grew by 2), and both calls returned
\* that record.
C13_ConcurrentTrackExclusive ==
    (/\ \A t \in ConcThreads : th[t].pc = "done"
     /\ \A t, u \in ConcThreads : th[t].fp = th[u].fp)
    => \A t \in ConcThreads :
          /\ Cardinality(CacheIndex(error_cache, records, th[t].fp)) = 1
          /\ \A i \in CacheIndex(error_cache, records, th[t].fp) :
                /\ records[error_cache[i]].count = Occurrences(th[t].fp)
                /\ th[t].returned = error_cache[i]

\* C14 as claimed: when every thread that called through the breaker has
\* finished, failure_count is the number of calls whose wrapped function
\* failed, and the breaker is OPEN if that number is >= failure_threshold.
C14_NoFailureLost ==
    (\A t \in ConcThreads : cth[t].pc \in {"done", "refused"})
    => /\ failure_count = Cardinality({t \in ConcThreads : cth[t].pc = "done"})
       /\ (Cardinality({t \in ConcThreads : cth[t].pc = "done"})
              >= failure_threshold) => cb_state = "open"

\* C15 as claimed: a failure of tracking is never what the caller of a
\* wrapper sees: with_fallback and safe_execute return the fallback value
\* when the protected code raised an exception they catch, and ErrorBoundary
\* swallows or re-raises the exception of its body as configured.
C15_TrackingNeverAltersOutcome ==
    /\ op_result.seen # "tracking_exception"
    /\ (/\ op_result.wrapper \in {"with_fallback", "safe_execute"}
        /\ op_result.outcome = "caught") => op_result.seen = "fallback"
    /\ (op_result.wrapper = "error_boundary" /\ op_result.outcome = "caught")
          => op_result.seen = IF op_result.reraise THEN "op_exception"
                              ELSE "swallowed"

\* C19 as claimed: the exception a call raises when it is refused is of a
\* class that a failure of the wrapped function does not have: a refused
\* call that follows a call in which the wrapped function raised does not
\* raise an exception of the class the caller saw then.
C19_FastFailDistinctKind ==
    [][ (/\ CbCallStep
         /\ cb_result' = "circuit_open"
         /\ cb_result \in {"fail", "other"})
        => cb_raised' # cb_raised ]_vars

\* C20: in with_retry the i-th sleep of a run, the one after the failure of
\* 0-based attempt i - 1, lasts delay * backoff_factor^(i - 1); while the
\* loop runs every failed attempt has been followed by its sleep, and a
\* finished run with max_attempts = n >= 1 slept once less than it executed
\* the function, that is min(k, n) - 1 times, so never after its last
\* attempt.
C20_BackoffSleeps ==
    /\ \A i \in 1..Len(rt_sleeps) :
          rt_sleeps[i] = rt_delay * Pow(rt_backoff, i - 1)
    /\ rt_pc = "loop" => Len(rt_sleeps) = Len(rt_outcomes)
    /\ (rt_pc = "done" /\ rt_max_attempts >= 1)
          => /\ Len(rt_sleeps) = Len(rt_outcomes) - 1
             /\ (\A i \in 1..Len(rt_outcomes) : rt_outcomes[i] = "retryable")
                   => Len(rt_sleeps) = rt_max_attempts - 1
             /\ (rt_outcomes[Len(rt_outcomes)] = "ok")
                   => /\ Len(rt_outcomes) <= rt_max_attempts
                      /\ \A i \in 1..Len(rt_sleeps) : rt_outcomes[i] = "retryable"

\* four failed attempts with delay 1 and backoff_factor 2
C20_Witness ==
    /\ rt_pc = "done"
    /\ rt_max_attempts = 4
    /\ rt_sleeps = <<1, 2, 4>>
    /\ rt_outcomes = <<"retryable", "retryable", "retryable", "retryable">>

C23_AttemptsTrackedIndividually ==
    (/\ op_result.wrapper = "safe_execute"
     /\ op_result.seen = "fallback"
     /\ se.pc = "idle")
    => \A i, j \in (Len(error_history) - op_result.calls + 1)..Len(error_history) :
          /\ records[error_history[i]].count = 1
          /\ i # j => error_history[i] # error_history[j]

\* C24 as claimed: when the block of an ErrorBoundary with reraise = False
\* raises (and tracking, if any, returns), the exception is swallowed,
\* boundary.errors has an entry for it and get_result() yields
\* fallback_value, whatever track_errors is.
C24_BoundaryCollects ==
    (/\ op_result.wrapper = "error_boundary"
     /\ op_result.outcome = "caught"
     /\ ~op_result.reraise
     /\ op_result.seen # "tracking_exception")
    => /\ op_result.seen = "swallowed"
       /\ op_result.recorded
       /\ op_result.get_result = "fallback"

\* C25 as claimed: resolve_error called with the id of a record that
\* track_error returned answers True and leaves that record resolved with
\* the notes given; called with an id no record has, it answers False and
\* changes no record.
C25_ResolveKnownIds ==
    [][ (resolve_result' # resolve_result)
        => /\ (resolve_result'.id \in DOMAIN records)
                 => /\ resolve_result'.returned
                    /\ records'[resolve_result'.id].resolved
                    /\ records'[resolve_result'.id].resolution_notes
                          = resolve_result'.notes
           /\ (resolve_result'.id \notin DOMAIN records)
                 => /\ ~resolve_result'.returned
                    /\ records' = records ]_vars

\* C26 as claimed: get_top_errors(limit) returns at most limit records of
\* the store, by count descending, and of two records with the same count
\* the one seen more recently comes first.
C26_TopErrorsOrder ==
    /\ Len(top_result.errors) <= top_result.limit
    /\ (top_result.errors = TopErrors(error_cache, records, top_result.limit))
          => \A a, b \in 1..Len(top_result.errors) :
                a < b =>
                  LET x == records[top_result.errors[a]]
                      y == records[top_result.errors[b]]
                  IN /\ x.count >= y.count
                     /\ x.count = y.count => x.last_seen >= y.last_seen

\* the signature named by the claim: exception type, first 200 characters
\* of the message, function name, module name, line number and the first
\* three application stack lines
SameSignature(a, b) ==
    /\ a.exception_type = b.exception_type
    /\ Prefix(a.error_message, MessagePrefix)
         = Prefix(b.error_message, MessagePrefix)
    /\ a.context.function_name = b.context.function_name
    /\ a.context.module_name = b.context.module_name
    /\ a.context.line_number = b.context.line_number
    /\ Prefix(StackLines(a.stack_trace), StackFrames)
         = Prefix(StackLines(b.stack_trace), StackFrames)

\* C27: two calls of generate_fingerprint whose inputs agree on the
\* signature return the same fingerprint, whatever the time of the call,
\* the state of the tracker, the request, session and user ids and the
\* additional context data.
C27_FingerprintOfSignatureOnly ==
    \A i, j \in 1..Len(fpc) :
        SameSignature(fpc[i].input, fpc[j].input)
            => fpc[i].result = fpc[j].result

\* two calls with the same signature made at different times and in
\* different tracker states, with different request ids, a message that
\* differs after character 200 and stacks that differ outside the first
\* three application lines
C27_Witness ==
    /\ Len(fpc) = 2
    /\ SameSignature(fpc[1].input, fpc[2].input)
    /\ fpc[1].time # fpc[2].time
    /\ fpc[1].records # fpc[2].records
    /\ fpc[1].input.context.rest # fpc[2].input.context.rest
    /\ fpc[1].input.error_message # fpc[2].input.error_message
    /\ fpc[1].input.stack_trace # fpc[2].input.stack_trace
    /\ fpc[1].result = fpc[2].result

RECURSIVE SumCounts(_, _)
SumCounts(ids, recs) ==
    IF ids = {} THEN 0
    ELSE LET id == CHOOSE x \in ids : TRUE
         IN recs[id].count + SumCounts(ids \ {id}, recs)

\* the value of a bucket of a histogram, 0 when the dict has no such key
BucketGet(hist, key) == IF key \in DOMAIN hist THEN hist[key] ELSE 0

\* C28 as claimed: when a tick whose scan saw the whole history assigns a
\* severity or category histogram, every bucket equals the sum of count
\* over the distinct records of that severity or category created within
\* the last 24 hours.
C28_BucketsSumDistinctRecords ==
    [][ \A i \in DOMAIN loops :
          (/\ loops[i].pc \in {"severity", "category"}
           /\ loops'[i].pc # loops[i].pc
           /\ loops[i].seen = Len(error_history))
          => \A key \in {"critical", "fatal", "error", "validation", "unknown"} :
               BucketGet(IF loops[i].pc = "severity"
                            THEN error_stats'.errors_by_severity
                            ELSE error_stats'.errors_by_category, key)
               = SumCounts({id \in IdsIn(error_cache) :
                              /\ records[id][loops[i].pc] = key
                              /\ records[id].timestamp
                                    > loops[i].current_time - Day},
                           records) ]_vars

\* C29 as claimed: the fields a reader of get_error_stats sees were all
\* assigned by one and the same tick. Reads that show no error at all are
\* left out, and so is mean_time_to_resolution, which a tick may leave
\* unassigned.
C29_ReaderSeesOneTick ==
    stats_read.stats.total_errors > 0
        => \A f, g \in TickFields : stats_read.epoch[f] = stats_read.epoch[g]

\* C30: once the flag is cleared and stays cleared every started loop ends;
\* a tick begins only in a step in which the loop sees the flag set, and a
\* loop that has ended begins none; stop returns, and no later than
\* JoinTimeout after it was called.
C30_StopEndsLoop ==
    /\ \A i \in 1..MaxStarts :
          (i \in DOMAIN loops /\ loops[i].pc # "dead" /\ ~processing_enabled)
            ~> (processing_enabled \/ (i \in DOMAIN loops /\ loops[i].pc = "dead"))
    /\ [][ /\ tick_count' # tick_count => processing_enabled
           /\ \A i \in DOMAIN loops :
                 loops[i].pc = "dead" => loops'[i] = loops[i] ]_vars
    /\ [](stopper.pc = "joining" => now <= stopper.deadline)
    /\ [](stopper.returned <= stopper.called + JoinTimeout)
    /\ (stopper.pc = "joining") ~> (stopper.pc = "idle")

\* stop was called while the loop slept after a tick, the join ran into its
\* timeout, and the loop has ended since
C30_Witness ==
    /\ stopper.calls = 1
    /\ stopper.pc = "idle"
    /\ stopper.returned = stopper.called + JoinTimeout
    /\ ~processing_enabled
    /\ Len(loops) = 1
    /\ loops[1].pc = "dead"
    /\ loops[1].tick = 1

\* C31 as claimed: export_errors called with a format other than json or
\* csv raises, and neither writes a file nor reports a successful export.
C31_UnsupportedFormatFails ==
    (export_result.calls > 0 /\ export_result.format \notin {"json", "csv"})
        => /\ export_result.outcome = "raised"
           /\ ~export_result.logged

\* C32 as claimed: a CSV export holds the header row and then one data row
\* per distinct record tracked, however often each record occurred.
C32_CsvOneRowPerRecord ==
    (export_result.format = "csv"
        /\ export_result.rows
             = <<"header">> \o ExportRows(error_history, records))
        => /\ export_result.rows[1] = "header"
           /\ Len(export_result.rows) - 1
                = Cardinality({error_history[k] : k \in 1..Len(error_history)})

\* C33 as claimed: a HALF_OPEN state admits one trial call. Once the breaker
\* is HALF_OPEN and its trial call has ended, the wrapped function is not
\* invoked again for as long as the breaker stays HALF_OPEN.
C33_SingleTrialCall ==
    [][ (cb_state = "half-open" /\ cb_pc = "idle" /\ cb_state' = "half-open")
          => invocations' = invocations ]_vars

\* C34 as claimed, for mean_time_to_resolution: a tick that finds no
\* resolved record with non-empty notes assigns the field anew, also when
\* an earlier tick has computed a value for it.
C34_TickRecomputesEveryField ==
    [][ \A i \in DOMAIN loops :
          (/\ loops[i].pc = "resolution"
           /\ loops'[i].pc = "sleep"
           /\ stats_epoch["mean_time_to_resolution"] > 0
           /\ ResolutionTimes(ResolvedEntries(error_history, records), records)
                = <<>>)
          => stats_epoch'["mean_time_to_resolution"] = loops[i].tick ]_vars

\* C35 as claimed: a loop begins a tick no sooner than stats_interval after
\* it began its previous one, whether that one completed or failed.
C35_WaitBetweenTicks ==
    [][ \A i \in DOMAIN loops :
          (loops[i].pc = "check" /\ loops'[i].pc = "scan" /\ loops[i].tick > 0)
          => now >= loops[i].current_time + StatsInterval ]_vars

\* C36: the resolved flag and the resolution notes of a record change only
\* in a step of resolve_error: tracking (also of a resolved fingerprint),
\* evictions, statistics ticks and exports leave them as they are.
C36_OnlyResolveErrorResolves ==
    [][ \A id \in DOMAIN records :
          (\/ records'[id].resolved # records[id].resolved
           \/ records'[id].resolution_notes # records[id].resolution_notes)
          => /\ resolve_result'.calls = resolve_result.calls + 1
             /\ resolve_result'.id = id
             /\ resolve_result'.returned ]_vars

\* record 2 was resolved, exported as resolved with count 1 and tracked
\* again afterwards; an eviction has removed a record and a tick has
\* completed; record 2 is still resolved with its notes
C36_Witness ==
    /\ export_result.format = "csv"
    /\ \E k \in 2..Len(export_result.rows) :
          /\ export_result.rows[k].id = 2
          /\ export_result.rows[k].resolved
          /\ export_result.rows[k].count = 1
    /\ records[2].count = 2
    /\ records[2].resolved
    /\ records[2].resolution_notes = "fixed"
    /\ Len(error_cache) = FilledRecords
    /\ FilledRecords + 1 \in UsedFps
    /\ loops # <<>>
    /\ loops[1].pc = "sleep"

InitCache ==
    /\ now = FilledCacheTime
    /\ StoreInit(9)
    /\ CbInit(1, 1, "Exception")
    /\ RtInit(1, 0, 1, "none")
    /\ FilledCacheInit
    /\ ConcInit
    /\ GuardInit
    /\ AuxInit

NextCache ==
    \/ \E name \in CacheNames : ShouldSendAlert(name, FilledLevel)
    \/ \E d \in CacheTickSteps : CacheTick(d)

SpecCache == InitCache /\ [][NextCache]_vars

\* C37: a dispatch that leaves more than max_cache_size entries in the cache
\* removes exactly the entries last seen more than 2 * aggregation_window
\* ago and keeps the others, the dispatched entry among them; while the
\* cache holds at most max_cache_size entries no call removes an entry.
C37_CleanupRemovesOnlyOld ==
    [][ \A name \in CacheNames : \A sent \in BOOLEAN :
          alert_log' = Append(alert_log, [name |-> name, level |-> FilledLevel,
                                          time |-> now, sent |-> sent])
          => LET key == CacheKey(name, FilledLevel)
                 keys == DOMAIN alert_cache \cup {key}
             IN /\ key \in DOMAIN alert_cache'
                /\ alert_cache'[key].last_seen = now
                /\ (sent /\ Cardinality(keys) > MaxCacheSize)
                   => /\ DOMAIN alert_cache'
                          = {k \in keys :
                                \/ k = key
                                \/ now - alert_cache[k].last_seen
                                      <= 2 * AggregationWindow}
                      /\ \A k \in DOMAIN alert_cache' \ {key} :
                            alert_cache'[k] = alert_cache[k]
                /\ Cardinality(keys) <= MaxCacheSize
                   => DOMAIN alert_cache' = keys
      ]_vars

\* the last call was a dispatch on a cache of more than max_cache_size
\* entries: the entries last seen at time 0 are gone, the entries last seen
\* exactly 2 * aggregation_window before the call are kept, and so is the
\* entry that was dispatched at time 0 and seen again later
C37_Witness ==
    /\ alert_log # <<>>
    /\ alert_log[Len(alert_log)].sent
    /\ alert_log[Len(alert_log)].time
          = FilledCacheTime + 2 * AggregationWindow
    /\ CacheKey(alert_log[Len(alert_log)].name, FilledLevel)
          \in DOMAIN alert_cache
    /\ CacheKey(FilledName(3), FilledLevel) \notin DOMAIN alert_cache
    /\ CacheKey(FilledName(2), FilledLevel) \in DOMAIN alert_cache
    /\ CacheKey(FilledName(MaxCacheSize - 1), FilledLevel)
          \in DOMAIN alert_cache
    /\ Cardinality(DOMAIN alert_cache) > OldEntries

\* C39: a call is measured against the last dispatch of its cache key: it
\* is dispatched exactly when at least aggregation_window has passed since
\* that dispatch, whatever occurrences were suppressed in between, and a
\* dispatch leaves the entry with count 1 and last_sent at the time of the
\* call.
C39_WindowAnchoredAtDispatch ==
    [][ \A name \in AlertNames, level \in AlertLevels : \A sent \in BOOLEAN :
          alert_log' = Append(alert_log, [name |-> name, level |-> level,
                                          time |-> now, sent |-> sent])
          => \A i \in 1..Len(alert_log) :
                (/\ CacheKey(alert_log[i].name, alert_log[i].level)
                       = CacheKey(name, level)
                 /\ alert_log[i].sent
                 /\ \A j \in (i + 1)..Len(alert_log) :
                       ~(/\ CacheKey(alert_log[j].name, alert_log[j].level)
                              = CacheKey(name, level)
                         /\ alert_log[j].sent))
                => /\ sent <=> (now - alert_log[i].time >= AggregationWindow)
                   /\ sent => /\ alert_cache'[CacheKey(name, level)].count = 1
                              /\ alert_cache'[CacheKey(name, level)].last_sent
                                    = now
      ]_vars

\* a key was dispatched, suppressed less than aggregation_window later and
\* dispatched again less than aggregation_window after the suppressed
\* occurrence, which is aggregation_window or more after the first dispatch;
\* the entry is back at count 1
C39_Witness ==
    /\ Len(alert_log) = 3
    /\ \A i \in 1..3 :
          CacheKey(alert_log[i].name, alert_log[i].level)
              = CacheKey(alert_log[1].name, alert_log[1].level)
    /\ alert_log[1].sent
    /\ ~alert_log[2].sent
    /\ alert_log[3].sent
    /\ alert_log[3].time - alert_log[2].time < AggregationWindow
    /\ alert_log[3].time - alert_log[1].time >= AggregationWindow
    /\ alert_cache[CacheKey(alert_log[3].name, alert_log[3].level)].count = 1
    /\ alert_cache[CacheKey(alert_log[3].name, alert_log[3].level)].last_sent
          = alert_log[3].time

\* C38 as claimed: whatever start_background_processing and
\* stop_background_processing calls were made, at most one statistics loop
\* is alive.
C38_AtMostOneLoopAlive ==
    Cardinality({i \in DOMAIN loops : loops[i].pc # "dead"}) <= 1

InitHandler ==
    /\ now = 0
    /\ StoreInit(9)
    /\ CbInit(1, 1, "Exception")
    /\ \E d \in HandlerDelays : RtInit(HandlerAttempts, d, HandlerBackoff, "none")
    /\ AlertInit
    /\ ConcInit
    /\ GuardInit
    /\ AuxInit

NextHandler ==
    \/ \E raises \in BOOLEAN : SetAlertCallback(raises)
    \/ \E fp \in HandlerTrackFps : HandlerTrack(fp)
    \/ HandlerCall
    \/ \E outcome \in RtOutcomes : RetryAttempt(outcome)
    \/ HandlerReturn

SpecHandler == InitHandler /\ [][NextHandler]_vars

\* C40 as claimed: a call of a composed handler whose three attempts all
\* raised a retryable exception leaves exactly one more tracked occurrence
\* than there was when it was entered.
C40_ExhaustedCallTrackedOnce ==
    (/\ op_result.wrapper = "with_error_tracking"
     /\ op_result.outcome = "caught"
     /\ op_result.seen = "op_exception"
     /\ rt_result.kind = "raised"
     /\ rt_outcomes = <<"retryable", "retryable", "retryable">>)
    => Len(error_history) = op_result.history_before + 1

====
